---- MODULE Spec2Model ----
(***************************************************************************)
(* Model of the evidentiary core of liuyipei/fedrate:                      *)
(*   - serp_utils.SerpRecorder  (bounded, deduplicating SERP aggregator)   *)
(*   - io_clients.fetch         (cache + retry/backoff HTTP client)        *)
(*   - io_clients.record_source (JSON source log)                          *)
(*   - small_langgraph4.macro_analyst (the pipeline that records sources   *)
(*     without the aggregator)                                             *)
(*   - search_with_fallback and main of small_langgraph4.py and of         *)
(*     manual_agent_demo.py (provider fallback, the three pipeline stages, *)
(*     the start-up tool check of a run)                                   *)
(* Left out: timestamps ("ts"), elapsed milliseconds ("ms"), the random     *)
(* jitter added to a backoff wait, and of the log events every value but   *)
(* those of "event", "provider" and "attempt".                             *)
(* The truncated sha256 of a payload is modelled by the content of the     *)
(* sorted JSON text that is hashed.                                        *)
(* io_clients.record_source_jsonl, which serp_utils imports, is not in the *)
(* source tree; it is modelled as one append to the run's source log.      *)
(***************************************************************************)
EXTENDS Integers, Sequences, FiniteSets, TLC

(***************************************************************************)
(* Bounds of the model.                                                    *)
(***************************************************************************)
NumUrls == 3          \* distinct non-empty URLs a search may return
MaxResults == 3       \* longest result list handed to one call
MaxK == 2             \* largest top_k_per_query
MaxRunCap == 2        \* largest integer run_cap
NumQueries == 2       \* distinct query strings
MaxRetries == 3       \* largest max_retries passed to fetch
MaxRuns == 2          \* processes started one after the other
MaxTime == 2          \* clock ticks
MaxRecords == 3       \* record_source calls of a run
MaxItems == 3         \* largest max_items passed to context_block
MaxLoopRetries == 5   \* largest max_retries of the calls that only retry

None == "None"        \* Python's None (where the other values are strings)
Absent == "Absent"    \* a key that a dict does not hold
NoInt == <<>>         \* Python's None where the other values are integers
Some(n) == <<n>>      \* an integer in such a place

(***************************************************************************)
(* Search result items.  A raw URL is None or a string; a string is        *)
(* modelled by its stripped core (0 is the empty string) and by whether    *)
(* whitespace surrounds it, so that strip() is a real conversion.          *)
(***************************************************************************)
RawUrl(c, p) == [isNone |-> FALSE, core |-> c, pad |-> p]
NoneUrl == [isNone |-> TRUE, core |-> 0, pad |-> FALSE]

\* None, whitespace only, and the non-empty URLs
RawUrls == {NoneUrl, RawUrl(0, TRUE)} \cup {RawUrl(c, FALSE) : c \in 1..NumUrls}

\* One fully populated item per raw URL, and one item that holds URL 1 with
\* surrounding whitespace, a None title and no snippet or provider key.
Items ==
  {[url |-> r, title |-> "T", snippet |-> "S", provider |-> "brave"] : r \in RawUrls}
    \cup {[url |-> RawUrl(1, TRUE), title |-> None, snippet |-> Absent, provider |-> Absent]}

Queries == 1..NumQueries

Min(a, b) == IF a <= b THEN a ELSE b

RECURSIVE SeqsUpTo(_, _)
SeqsUpTo(S, n) ==
  IF n = 0 THEN {<<>>}
  ELSE LET shorter == SeqsUpTo(S, n - 1)
       IN  shorter \cup {Append(s, x) : s \in {t \in shorter : Len(t) = n - 1}, x \in S}

ResultLists == SeqsUpTo(Items, MaxResults)

VARIABLES
  \* ---- SerpRecorder instance (serp_utils.py) ----
  top_k_per_query,   \* self.top_k_per_query
  run_cap,           \* self.run_cap: NoInt (None) or Some(n)
  seen_urls,         \* self._seen_urls
  total_recorded,    \* self._total_recorded
  agg_results,       \* self._agg_results
  \* ---- the run's source log, written through the Provenance Recorder ----
  source_log,
  \* ---- the last record_query_results call, as its caller sees it ----
  call_results,      \* the results argument
  call_query,        \* the query argument (0 before any call)
  call_taken,        \* Some(returned count); NoInt before any call or when it raised
  call_raised,       \* TRUE when the call propagated a recorder error
  call_repeat,       \* TRUE when the call repeated the call before it
  pre_seen,          \* self._seen_urls on entry to the call
  pre_total,         \* self._total_recorded on entry to the call
  pre_agg,           \* self._agg_results on entry to the call
  pre_log,           \* the source log on entry to the call
  returned_sum,      \* the sum of the counts the calls have returned so far
  \* ---- the cache directory (io_clients.CACHE_DIR) ----
  cache,             \* cache file name -> NoFile, Corrupt or the stored entry
  \* ---- one fetch call (io_clients.fetch) ----
  f_pc,              \* "idle", "loop" (in the retry loop) or "done"
  f_args,            \* the arguments of the call
  f_attempt,         \* the loop variable attempt
  f_delay,           \* the local delay, in seconds
  f_net_calls,       \* network requests made by the call
  f_sleeps,          \* the base delays of the time.sleep calls made, in order
  f_last,            \* what the last network request ended in
  f_only_retryable,  \* every network request so far was answered with a retryable status
  f_result,          \* how the call ended: returned data, or a raised error
  f_only_transient,  \* every request before the last: a retryable status or a transport error
  f_log,             \* the events the call has logged, in order
  f_prev,            \* key and data of the call that has just returned network data
  \* ---- small_langgraph4.macro_analyst and the file record_source writes ----
  lg_pc,             \* "search1", "search2", "record" or "done"
  lg_results,        \* the local list results
  lg_next,           \* index in results[:2] of the next item to record
  sources_file,      \* runs/<RUN_ID>.sources.json
  \* ---- the cache file names that calls for one request are given ----
  RUN_ID,            \* run_logging.RUN_ID of the running process
  now,               \* time.time(), in ticks
  key_request,       \* the request descriptor that is followed
  key_files,         \* the cache file names computed for it so far
  key_forms,         \* the descriptors, as passed, they were computed from
  \* ---- one search_with_fallback call ----
  s_pc,              \* "off", "fetch" (in the loop over the providers) or "done"
  s_query,           \* the argument query
  s_cache_only,      \* cfg.cache_only
  s_provider,        \* index in providers of the provider of this iteration
  s_errs,            \* the errors of the search_fail events logged, in order
  s_result,          \* the list returned, or an error raised to the caller
  \* ---- one run of main (small_langgraph4.py or manual_agent_demo.py) ----
  p_prog,            \* the program that runs
  p_stub,            \* cfg.stub (manual_agent_demo.py)
  p_pc,              \* where main is
  p_query,           \* the query of macro_analyst that is searched: 1 or 2
  p_res,             \* res, the list the last search returned (manual_agent_demo.py)
  p_failed,          \* the queries for which every provider failed
  p_stages,          \* the stages that have run to their end, in order
  p_notes,           \* analyst["notes"]
  p_factcheck,       \* the factcheck.json artifact
  p_exit,            \* the exit status: NoInt while main runs
  \* ---- the record_source calls of a run ----
  rs_calls,          \* record_source calls made
  rs_rec,            \* the record the last call was to append
  rs_pre,            \* the sources file on entry to the last call
  rs_raised,         \* the last call raised
  \* ---- one run of main (manual_agent_demo, small_langgraph4) ----
  m_pc,              \* "off", "tool_check" or "pipeline"
  m_cache_only,      \* cfg.cache_only
  \* ---- the context_block calls made between two record_query_results calls ----
  cb_calls,          \* calls made since the aggregator last changed
  cb_max,            \* the argument max_items of these calls: NoInt before the first
  cb_text,           \* the text the last call returned
  cb_first           \* the text the first of two calls returned

serpVars ==
  <<top_k_per_query, run_cap, seen_urls, total_recorded, agg_results, source_log,
    call_results, call_query, call_taken, call_raised, call_repeat,
    pre_seen, pre_total, pre_agg, pre_log, returned_sum>>

fetchVars ==
  <<cache, f_pc, f_args, f_attempt, f_delay, f_net_calls, f_sleeps, f_last,
    f_only_retryable, f_result, f_only_transient, f_log, f_prev>>

lgVars == <<lg_pc, lg_results, lg_next, sources_file>>

keyVars == <<RUN_ID, now, key_request, key_files, key_forms>>

searchVars == <<s_pc, s_query, s_cache_only, s_provider, s_errs, s_result>>

pipeVars ==
  <<p_prog, p_stub, p_pc, p_query, p_res, p_failed, p_stages, p_notes, p_factcheck, p_exit>>

rsVars == <<rs_calls, rs_rec, rs_pre, rs_raised>>

blockVars == <<cb_calls, cb_max, cb_text, cb_first>>

mainVars == <<m_pc, m_cache_only>>

vars ==
  <<serpVars, fetchVars, lgVars, keyVars, searchVars, pipeVars, rsVars, blockVars, mainVars>>

\* what the actions of one component leave alone
nonSerpVars ==
  <<fetchVars, lgVars, keyVars, searchVars, pipeVars, rsVars, blockVars, mainVars>>
nonFetchVars ==
  <<serpVars, lgVars, keyVars, searchVars, pipeVars, rsVars, blockVars, mainVars>>
nonLgVars ==
  <<serpVars, fetchVars, keyVars, searchVars, pipeVars, rsVars, blockVars, mainVars>>
nonSearchVars ==
  <<serpVars, lgVars, keyVars, pipeVars, rsVars, blockVars, mainVars>>
nonPipeVars ==
  <<fetchVars, keyVars, searchVars, rsVars, blockVars, mainVars>>
nonRsVars == <<serpVars, fetchVars, lg_pc, lg_results, lg_next, keyVars, searchVars, pipeVars,
                blockVars, mainVars>>
nonKeyVars == <<serpVars, f_pc, f_args, f_attempt, f_delay, f_net_calls, f_sleeps, f_last,
                f_only_retryable, f_result, f_only_transient, f_log, f_prev, lgVars,
                searchVars, pipeVars, rsVars, blockVars, mainVars>>

(***************************************************************************)
(* io_clients.py: fetch                                                    *)
(***************************************************************************)
Providers == {"brave", "ddg"}
Methods == {"GET", "get"}
EmptyDict == "{}"
\* params: None, an empty dict, or one non-empty dict
ParamValues == {None, EmptyDict, "{q}"}
\* the calls of the model fetch one URL and send no JSON body
Urls == {"url"}
JsonBodies == {None}

\* method.upper()
Upper(m) == IF m = "get" THEN "GET" ELSE m

\* params or {}
OrEmpty(d) == IF d = None THEN EmptyDict ELSE d

\* payload = {"url": url, "method": method.upper(), "params": params or {},
\*            "json": json_body or {}}
Payload(url, method, params, json_body) ==
  [url |-> url, method |-> Upper(method), params |-> OrEmpty(params),
   json |-> OrEmpty(json_body)]

\* The order in which json.dumps(..., sort_keys=True) writes the keys of a
\* dict.  A dict is modelled by the text of its keys in insertion order; of
\* the dicts of the model {q, count} and Brave's {q: ..., count: 5} are not
\* in sorted order.
SortKeys(d) ==
  IF d = "{q,count}" THEN "{count,q}"
  ELSE IF \E q \in Queries : d = "{q:" \o ToString(q) \o ",count:5}"
       THEN LET q == CHOOSE q \in Queries : d = "{q:" \o ToString(q) \o ",count:5}"
            IN  "{count:5,q:" \o ToString(q) \o "}"
  ELSE d

\* faulty variant: the keys are written in insertion order
DumpsInsertionOrder(payload) == payload

\* json.dumps(payload, sort_keys=True): the keys of the payload and of the
\* dicts in it in sorted order (a record has no field order of its own)
Dumps(payload) == [payload EXCEPT !.params = SortKeys(@), !.json = SortKeys(@)]

\* faulty variant: the provider is not part of the file name
cache_key_shared(provider, payload) == <<"", Dumps(payload)>>

\* CACHE_DIR / f"{provider}-{h}.json"; h, the truncated sha256 of the sorted
\* JSON text of the payload, is modelled by that text's content
cache_key(provider, payload) == <<provider, Dumps(payload)>>

\* faulty variant: the headers of the call are part of what is hashed
KeyOfWithHeaders(args) ==
  cache_key(args.provider,
            [url |-> args.url, method |-> Upper(args.method), params |-> OrEmpty(args.params),
             json |-> OrEmpty(args.json_body), headers |-> OrEmpty(args.headers)])

\* faulty variant: the mode flags of the call are part of what is hashed
KeyOfWithMode(args) ==
  cache_key(args.provider,
            Payload(args.url, IF args.cache_only THEN "CACHE_ONLY" ELSE args.method,
                    args.params, args.json_body))

\* key = _cache_key(provider, payload)
KeyOf(args) ==
  cache_key(args.provider, Payload(args.url, args.method, args.params, args.json_body))

\* timeout_s: float = 30.0
DefaultTimeout == 30

FetchArgs ==
  [provider : Providers, url : Urls, method : Methods, params : ParamValues,
   json_body : JsonBodies, headers : {None}, use_cache : BOOLEAN, cache_only : BOOLEAN,
   max_retries : 0..MaxRetries, timeout_s : {DefaultTimeout}]

CacheKeys == {KeyOf(a) : a \in FetchArgs}

retryable_statuses == {408, 425, 429, 500, 502, 503, 504}

\* the statuses a server answers with
Statuses == retryable_statuses \cup {200, 304, 404}

\* What one network request ends in: a transport-level exception, or a
\* response with a status and a body that is JSON by its content type, JSON
\* by its content type but unparsable, or text.
NetOutcomes ==
  {[kind |-> "transport", status |-> 0, content |-> "none"]}
    \cup {[kind |-> "response", status |-> st, content |-> "text"] : st \in Statuses}
    \cup {[kind |-> "response", status |-> 200, content |-> c] : c \in {"json", "badjson"}}

NoOutcome == [kind |-> "none", status |-> 0, content |-> "none"]

\* a cache file: missing, unparsable, or holding json.dumps(data)
NoFile == [file |-> "missing"]
Corrupt == [file |-> "corrupt"]
\* data = {"meta": {"status": ..., "ms": ...}, "body": body}; the elapsed
\* milliseconds are not modelled
Data(status, content) ==
  [file |-> "entry", meta |-> [status |-> status], body |-> content]

NoResult == [kind |-> "none"]
ReturnedData(d) == [kind |-> "returned", data |-> d]
ReturnedNone == [kind |-> "returned_none"]
Raised(e) == [kind |-> "raised", err |-> e]

\* faulty variant: only client and server error statuses raise
RaisesForStatusFrom400(status) == status >= 400

\* r.raise_for_status(): an HTTPStatusError unless the status is 2xx
RaisesForStatus(status) == ~(200 <= status /\ status <= 299)

\* The exception an attempt raises inside the try block, "" when none.
AttemptError(o) ==
  IF o.kind = "transport" THEN "transport"
  ELSE IF o.status \in retryable_statuses THEN "retryable_status"
  ELSE IF RaisesForStatus(o.status) THEN "http_status"
  ELSE IF o.content = "badjson" THEN "json_decode"
  ELSE ""

NoArgs ==
  [provider |-> "", url |-> "", method |-> "", params |-> None, json_body |-> None,
   headers |-> None, use_cache |-> FALSE, cache_only |-> FALSE, max_retries |-> 0,
   timeout_s |-> 0]

\* f_prev: the call before the current one (or the one that has just
\* returned), when it returned data it fetched from the network for the
\* key of the current call and the cache was not damaged since; attempts is
\* the number of requests it made, headers the headers it sent
NoPrev == [call |-> "none"]
Prev(key, data, attempts, headers) ==
  [call |-> "fetched", key |-> key, data |-> data, attempts |-> attempts,
   headers |-> headers]

\* A log event: the values of its "event" and "provider" keys, the value of
\* its "attempt" key (NoInt when the event has none), and its keys.  The
\* values of the other keys are left out.
Event(name, provider, attempt, keys) ==
  [event |-> name, provider |-> provider, attempt |-> attempt, keys |-> keys]

\* lines 39 and 46
CacheHitEvent(args) ==
  Event("http_cache_hit", args.provider, NoInt,
        {"event", "provider", "key"} \cup (IF args.cache_only THEN {"mode"} ELSE {}))

\* line 57
HttpCallEvent(provider) ==
  Event("http_call", provider, NoInt, {"event", "provider", "meta", "url"})

\* line 70
HttpRetryEvent(provider, attempt) ==
  Event("http_retry", provider, Some(attempt), {"event", "provider", "attempt", "err"})

FetchIdle ==
  /\ f_pc = "idle"
  /\ f_args = NoArgs
  /\ f_attempt = 0
  /\ f_delay = 0
  /\ f_net_calls = 0
  /\ f_sleeps = <<>>
  /\ f_last = NoOutcome
  /\ f_only_retryable = TRUE
  /\ f_result = NoResult
  /\ f_only_transient = TRUE
  /\ f_log = <<>>
  /\ f_prev = NoPrev

\* json.loads(key.read_text()) and return, lines 38-40 and 45-47
ReadCached(file) ==
  IF file = Corrupt THEN Raised("json_decode") ELSE ReturnedData(file)

\* faulty variant: the cache file is never found
ExistsNever(file) == FALSE

\* key.exists()
Exists(file) == file # NoFile

\* faulty variant: the normal path does not look at the cache
CachePathsNoHit(args, file) ==
  IF args.cache_only
  THEN IF Exists(file) THEN ReadCached(file) ELSE Raised("cache_miss")
  ELSE NoResult

\* Lines 35-47: what the two cache paths end the call with, given the cache
\* file of the key; NoResult when the call goes on to the network.
CachePaths(args, file) ==
  IF args.cache_only
  THEN IF Exists(file) THEN ReadCached(file) ELSE Raised("cache_miss")
  ELSE IF args.use_cache /\ Exists(file) THEN ReadCached(file)
  ELSE NoResult

\* The events the cache paths log: one on a hit, after the file has been
\* parsed; none on a miss, before the raise of line 41, or when the parse fails.
CacheEvents(args, file) ==
  IF CachePaths(args, file).kind = "returned" THEN <<CacheHitEvent(args)>> ELSE <<>>

\* The events of one loop iteration: http_call once a response has come
\* back, http_retry in the except clause.
AttemptEvents(provider, attempt, o) ==
  (IF o.kind = "response" THEN <<HttpCallEvent(provider)>> ELSE <<>>)
    \o (IF AttemptError(o) # "" THEN <<HttpRetryEvent(provider, attempt)>> ELSE <<>>)

\* retryable status or transport error
Transient(o) == AttemptError(o) \in {"retryable_status", "transport"}

\* Lines 32-49: the call up to the retry loop.
FetchCall(args) ==
  LET key == KeyOf(args)
      result == CachePaths(args, cache[key])
  IN  /\ f_pc = "idle"
      /\ f_only_transient' = TRUE
      /\ f_log' = CacheEvents(args, cache[key])
      /\ f_prev' = IF f_prev # NoPrev /\ f_prev.key = key THEN f_prev ELSE NoPrev
      /\ UNCHANGED nonFetchVars
      /\ f_args' = args
      /\ f_result' = result
      /\ f_pc' = IF result = NoResult THEN "loop" ELSE "done"
      /\ f_attempt' = IF result = NoResult THEN 1 ELSE 0
      /\ f_delay' = IF result = NoResult THEN 1 ELSE 0
      /\ f_net_calls' = 0
      /\ f_sleeps' = <<>>
      /\ f_last' = NoOutcome
      /\ f_only_retryable' = TRUE
      /\ UNCHANGED cache

\* faulty variant: the entry is returned but not written to the cache
AttemptSucceedsNoWrite(o) ==
  /\ f_pc = "loop"
  /\ UNCHANGED nonFetchVars
  /\ f_attempt <= f_args.max_retries
  /\ AttemptError(o) = ""
  /\ f_result' = ReturnedData(Data(o.status, o.content))
  /\ f_pc' = "done"
  /\ f_net_calls' = f_net_calls + 1
  /\ f_last' = o
  /\ f_only_retryable' = FALSE
  /\ f_log' = f_log \o AttemptEvents(f_args.provider, f_attempt, o)
  /\ f_only_transient' = (f_only_transient /\ (f_last = NoOutcome \/ Transient(f_last)))
  /\ UNCHANGED <<cache, f_args, f_attempt, f_delay, f_sleeps, f_prev>>

\* Lines 50-68: an iteration whose request succeeds; the entry is written
\* and returned.
AttemptSucceeds(o) ==
  /\ f_pc = "loop"
  /\ UNCHANGED nonFetchVars
  /\ f_attempt <= f_args.max_retries
  /\ AttemptError(o) = ""
  /\ LET data == Data(o.status, o.content)
     IN  /\ cache' = [cache EXCEPT ![KeyOf(f_args)] = data]
         /\ f_result' = ReturnedData(data)
  /\ f_pc' = "done"
  /\ f_net_calls' = f_net_calls + 1
  /\ f_last' = o
  /\ f_only_retryable' = FALSE
  /\ f_log' = f_log \o AttemptEvents(f_args.provider, f_attempt, o)
  /\ f_only_transient' = (f_only_transient /\ (f_last = NoOutcome \/ Transient(f_last)))
  /\ UNCHANGED <<f_args, f_attempt, f_delay, f_sleeps, f_prev>>

\* faulty variant: one more request is made before the error is raised
AttemptFailsOneMore(o) ==
  /\ f_pc = "loop"
  /\ UNCHANGED nonFetchVars
  /\ f_attempt <= f_args.max_retries + 1
  /\ AttemptError(o) # ""
  /\ f_net_calls' = f_net_calls + 1
  /\ f_last' = o
  /\ f_only_retryable' = (f_only_retryable /\ AttemptError(o) = "retryable_status")
  /\ f_only_transient' = (f_only_transient /\ (f_last = NoOutcome \/ Transient(f_last)))
  /\ f_log' = f_log \o AttemptEvents(f_args.provider, f_attempt, o)
  /\ UNCHANGED f_prev
  /\ IF f_attempt = f_args.max_retries + 1
     THEN /\ f_result' = Raised(AttemptError(o))
          /\ f_pc' = "done"
          /\ UNCHANGED <<f_attempt, f_delay, f_sleeps>>
     ELSE /\ f_sleeps' = Append(f_sleeps, f_delay)
          /\ f_delay' = f_delay * 2
          /\ f_attempt' = f_attempt + 1
          /\ UNCHANGED <<f_result, f_pc>>
  /\ UNCHANGED <<cache, f_args>>

\* faulty variant: the delay grows by one second instead of doubling
AttemptFailsLinearDelay(o) ==
  /\ f_pc = "loop"
  /\ UNCHANGED nonFetchVars
  /\ f_attempt <= f_args.max_retries
  /\ AttemptError(o) # ""
  /\ f_net_calls' = f_net_calls + 1
  /\ f_last' = o
  /\ f_only_retryable' = (f_only_retryable /\ AttemptError(o) = "retryable_status")
  /\ f_only_transient' = (f_only_transient /\ (f_last = NoOutcome \/ Transient(f_last)))
  /\ f_log' = f_log \o AttemptEvents(f_args.provider, f_attempt, o)
  /\ UNCHANGED f_prev
  /\ IF f_attempt = f_args.max_retries
     THEN /\ f_result' = Raised(AttemptError(o))
          /\ f_pc' = "done"
          /\ UNCHANGED <<f_attempt, f_delay, f_sleeps>>
     ELSE /\ f_sleeps' = Append(f_sleeps, f_delay)
          /\ f_delay' = f_delay + 1
          /\ f_attempt' = f_attempt + 1
          /\ UNCHANGED <<f_result, f_pc>>
  /\ UNCHANGED <<cache, f_args>>

\* faulty variant: the error raised after the last attempt does not carry the error of the attempt
AttemptFailsExhausted(o) ==
  /\ f_pc = "loop"
  /\ UNCHANGED nonFetchVars
  /\ f_attempt <= f_args.max_retries
  /\ AttemptError(o) # ""
  /\ f_net_calls' = f_net_calls + 1
  /\ f_last' = o
  /\ f_only_retryable' = (f_only_retryable /\ AttemptError(o) = "retryable_status")
  /\ f_only_transient' = (f_only_transient /\ (f_last = NoOutcome \/ Transient(f_last)))
  /\ f_log' = f_log \o AttemptEvents(f_args.provider, f_attempt, o)
  /\ UNCHANGED f_prev
  /\ IF f_attempt = f_args.max_retries
     THEN /\ f_result' = Raised("exhausted")
          /\ f_pc' = "done"
          /\ UNCHANGED <<f_attempt, f_delay, f_sleeps>>
     ELSE /\ f_sleeps' = Append(f_sleeps, f_delay)
          /\ f_delay' = f_delay * 2
          /\ f_attempt' = f_attempt + 1
          /\ UNCHANGED <<f_result, f_pc>>
  /\ UNCHANGED <<cache, f_args>>

\* Lines 50-60 and 69-74: an iteration that ends in the except clause.
AttemptFails(o) ==
  /\ f_pc = "loop"
  /\ UNCHANGED nonFetchVars
  /\ f_attempt <= f_args.max_retries
  /\ AttemptError(o) # ""
  /\ f_net_calls' = f_net_calls + 1
  /\ f_last' = o
  /\ f_only_retryable' = (f_only_retryable /\ AttemptError(o) = "retryable_status")
  /\ f_only_transient' = (f_only_transient /\ (f_last = NoOutcome \/ Transient(f_last)))
  /\ f_log' = f_log \o AttemptEvents(f_args.provider, f_attempt, o)
  /\ UNCHANGED f_prev
  /\ IF f_attempt = f_args.max_retries
     THEN /\ f_result' = Raised(AttemptError(o))
          /\ f_pc' = "done"
          /\ UNCHANGED <<f_attempt, f_delay, f_sleeps>>
     ELSE /\ f_sleeps' = Append(f_sleeps, f_delay)
          /\ f_delay' = f_delay * 2
          /\ f_attempt' = f_attempt + 1
          /\ UNCHANGED <<f_result, f_pc>>
  /\ UNCHANGED <<cache, f_args>>

\* range(1, max_retries + 1) is exhausted: the function body ends, and the
\* call returns None.
LoopEnds ==
  /\ f_pc = "loop"
  /\ UNCHANGED nonFetchVars
  /\ f_attempt > f_args.max_retries
  /\ f_result' = ReturnedNone
  /\ f_pc' = "done"
  /\ UNCHANGED <<cache, f_args, f_attempt, f_delay, f_net_calls, f_sleeps, f_last,
                 f_only_retryable, f_only_transient, f_log, f_prev>>

\* The call is over: its locals are gone.  f_prev keeps the key and the data
\* of a call that returned what it fetched from the network.
FetchReset ==
  /\ f_prev' = IF f_result.kind = "returned" /\ f_net_calls >= 1
               THEN Prev(KeyOf(f_args), f_result.data, f_net_calls, f_args.headers)
               ELSE NoPrev
  /\ f_only_transient' = TRUE
  /\ f_log' = <<>>
  /\ f_pc' = "idle"
  /\ f_args' = NoArgs
  /\ f_attempt' = 0
  /\ f_delay' = 0
  /\ f_net_calls' = 0
  /\ f_sleeps' = <<>>
  /\ f_last' = NoOutcome
  /\ f_only_retryable' = TRUE
  /\ f_result' = NoResult

\* The caller takes the result (or the exception); fetch can be called again.
FetchDone ==
  /\ f_pc = "done"
  /\ FetchReset
  /\ UNCHANGED cache
  /\ UNCHANGED nonFetchVars

\* A cache file is left unparsable (a process killed inside key.write_text,
\* or damage from outside the program).
CacheCorrupted ==
  /\ f_pc = "idle"
  /\ UNCHANGED nonFetchVars
  /\ \E k \in DOMAIN cache : cache[k] # Corrupt /\ cache' = [cache EXCEPT ![k] = Corrupt]
  /\ f_prev' = NoPrev
  /\ UNCHANGED <<f_pc, f_args, f_attempt, f_delay, f_net_calls, f_sleeps, f_last,
                 f_only_retryable, f_result, f_only_transient, f_log>>

(***************************************************************************)
(* io_clients._cache_key as fetch applies it, in processes that run one    *)
(* after the other on one cache directory.                                 *)
(***************************************************************************)
\* the request descriptor of a call: what the caller passed, as passed
Descriptor(args) ==
  [provider |-> args.provider, url |-> args.url, method |-> args.method,
   params |-> args.params, json_body |-> args.json_body]

Descriptors == {Descriptor(a) : a \in FetchArgs}

\* what a cache file can hold
CacheFiles == {NoFile, Corrupt} \cup {Data(200, c) : c \in {"text", "json"}}

KeyIdle ==
  /\ RUN_ID = 1
  /\ now = 0
  /\ key_request = NoArgs
  /\ key_files = {}
  /\ key_forms = {}

\* Lines 32-33 of a fetch call for the followed request: payload and key.
KeyComputed(args) ==
  /\ Descriptor(args) = key_request
  /\ key_files' = key_files \cup {KeyOf(args)}
  /\ key_forms' = key_forms \cup {Descriptor(args)}
  /\ UNCHANGED <<RUN_ID, now, key_request, cache>>
  /\ UNCHANGED nonKeyVars

\* the dicts of the calls whose forms are compared: absent, empty, one key,
\* and two keys inserted in either order
FormDicts == {None, EmptyDict, "{q}", "{q,count}", "{count,q}"}

\* the dict a params or json_body argument stands for, as the set of its keys
\* (None stands for no dict; the request then carries no params, as with {})
DictOf(d) ==
  IF d \in {None, EmptyDict} THEN {}
  ELSE IF d = "{q}" THEN {"q"}
  ELSE {"q", "count"}

\* two descriptors of one request: equal up to the case of the method, an
\* absent or empty dict, and the insertion order of the dicts' keys
SameRequest(a, b) ==
  /\ a.provider = b.provider
  /\ a.url = b.url
  /\ (a.method \in {"GET", "get"}) = (b.method \in {"GET", "get"})
  /\ a.method \notin {"GET", "get"} => a.method = b.method
  /\ DictOf(a.params) = DictOf(b.params)
  /\ DictOf(a.json_body) = DictOf(b.json_body)

FormArgs ==
  [provider : {"brave"}, url : Urls, method : Methods, params : FormDicts,
   json_body : FormDicts, headers : {None}, use_cache : {TRUE}, cache_only : {FALSE},
   max_retries : {MaxRetries}, timeout_s : {DefaultTimeout}]

\* Lines 32-33 of a fetch call for the followed request in any of its forms.
KeyComputedInForm(args) ==
  /\ SameRequest(Descriptor(args), key_request)
  /\ key_files' = key_files \cup {KeyOf(args)}
  /\ key_forms' = key_forms \cup {Descriptor(args)}
  /\ UNCHANGED <<RUN_ID, now, key_request, cache>>
  /\ UNCHANGED nonKeyVars

\* The process ends and the program is started again: a new RUN_ID
\* (str(uuid.uuid4())[:8]); the cache directory stays.
ProcessRestarts ==
  /\ RUN_ID < MaxRuns
  /\ RUN_ID' = RUN_ID + 1
  /\ UNCHANGED <<now, key_request, key_files, key_forms, cache>>
  /\ UNCHANGED nonKeyVars

\* time.time() moves on
TimePasses ==
  /\ now < MaxTime
  /\ now' = now + 1
  /\ UNCHANGED <<RUN_ID, key_request, key_files, key_forms, cache>>
  /\ UNCHANGED nonKeyVars

\* The cache directory changes: a file is written, damaged or removed.
CacheChanges ==
  /\ \E k \in CacheKeys, file \in CacheFiles :
        cache[k] # file /\ cache' = [cache EXCEPT ![k] = file]
  /\ UNCHANGED <<RUN_ID, now, key_request, key_files, key_forms>>
  /\ UNCHANGED nonKeyVars

(***************************************************************************)
(* io_clients.record_source and small_langgraph4.macro_analyst             *)
(***************************************************************************)
NoSources == [file |-> "missing", items |-> <<>>]
CorruptSources == [file |-> "corrupt", items |-> <<>>]
SourcesList(items) == [file |-> "list", items |-> items]

\* json.loads(p.read_text()), line 115
ParseSources(file) ==
  IF file.file = "corrupt" THEN Raised("json_decode")
  ELSE [kind |-> "items", items |-> file.items]

\* faulty variant: no try / except around the parse
LoadSourcesNoExcept(file) ==
  IF file.file = "missing" THEN [kind |-> "items", items |-> <<>>] ELSE ParseSources(file)

\* Lines 112-117: items = [], replaced by the parsed file when the file
\* exists and parses; except Exception gives items = [].
LoadSources(file) ==
  IF file.file = "missing" THEN [kind |-> "items", items |-> <<>>]
  ELSE IF ParseSources(file).kind = "raised" THEN [kind |-> "items", items |-> <<>>]
  ELSE ParseSources(file)

\* the call raises: an error of lines 112-117 reaches the caller
RecordRaises(file) == LoadSources(file).kind = "raised"

SourceRec(claim, url, snippet) == [claim |-> claim, url |-> url, snippet |-> snippet]

\* faulty variant: the file is written with the new record alone
record_source_fresh(file, claim, url, snippet) ==
  IF RecordRaises(file) THEN file
  ELSE SourcesList(<<SourceRec(claim, url, snippet)>>)

\* record_source: one record is appended to items and the file is written
\* again.  The "ts" field is left out.
record_source(file, claim, url, snippet) ==
  IF RecordRaises(file) THEN file
  ELSE SourcesList(Append(LoadSources(file).items, SourceRec(claim, url, snippet)))

RsIdle ==
  /\ rs_calls = 0
  /\ rs_rec = SourceRec("", 0, "")
  /\ rs_pre = NoSources
  /\ rs_raised = FALSE

\* what callers pass to record_source
RsClaims == {"claim1", "claim2"}
RsUrls == 0..1
RsSnippets == {"S"}

\* record_source(claim, url, snippet)
RecordSourceCall(claim, url, snippet) ==
  /\ rs_calls < MaxRecords
  /\ rs_calls' = rs_calls + 1
  /\ rs_rec' = SourceRec(claim, url, snippet)
  /\ rs_pre' = sources_file
  /\ rs_raised' = RecordRaises(sources_file)
  /\ sources_file' = record_source(sources_file, claim, url, snippet)
  /\ UNCHANGED nonRsVars

\* The sources file is left unparsable (a process killed inside
\* p.write_text, or damage from outside the program).
SourcesCorrupted ==
  /\ sources_file.file = "list"
  /\ sources_file' = CorruptSources
  /\ UNCHANGED rsVars
  /\ UNCHANGED nonRsVars

\* What search_with_fallback returns for a query: the items of the Brave
\* response (a URL, or None when the response gives none), the one stub item
\* of the DuckDuckGo branch, whose URL holds the query, or [] when both
\* providers fail.  URLs 1..NumUrls are Brave's; 0 stands for None.
LgItem(u) == [title |-> "T", url |-> u, snippet |-> "S"]
DdgStubUrl(q) == NumUrls + q
\* the stub item is also what a Brave answer that is no JSON object gives,
\* with Brave's URL
BraveStubUrl(q) == NumUrls + NumQueries + q
BraveResults == SeqsUpTo({LgItem(u) : u \in 0..NumUrls}, 2)
search_with_fallback(q) ==
  BraveResults \cup {<<LgItem(DdgStubUrl(q))>>, <<LgItem(BraveStubUrl(q))>>}

\* results[:2]
FirstTwo(results) == SubSeq(results, 1, Min(2, Len(results)))

LgIdle ==
  /\ lg_pc = "off"
  /\ lg_results = <<>>
  /\ lg_next = 0
  /\ sources_file = NoSources

\* results += search_with_fallback(q1, cfg)
LgSearch1 ==
  /\ lg_pc = "search1"
  /\ \E r \in search_with_fallback(1) : lg_results' = lg_results \o r
  /\ lg_pc' = "search2"
  /\ UNCHANGED <<lg_next, sources_file>>
  /\ UNCHANGED nonLgVars

\* results += search_with_fallback(q2, cfg)
LgSearch2 ==
  /\ lg_pc = "search2"
  /\ \E r \in search_with_fallback(2) : lg_results' = lg_results \o r
  /\ lg_pc' = "record"
  /\ lg_next' = 1
  /\ UNCHANGED sources_file
  /\ UNCHANGED nonLgVars

\* for r in results[:2]: record_source(claim=..., url=r["url"], snippet=r["snippet"])
LgRecord ==
  /\ lg_pc = "record"
  /\ lg_next <= Len(FirstTwo(lg_results))
  /\ LET r == FirstTwo(lg_results)[lg_next]
     IN  sources_file' = record_source(sources_file, "Search evidence", r.url, r.snippet)
  /\ lg_next' = lg_next + 1
  /\ UNCHANGED <<lg_pc, lg_results>>
  /\ UNCHANGED nonLgVars

\* the loop over results[:2] is over; macro_analyst goes on to the LLM call
LgRecorded ==
  /\ lg_pc = "record"
  /\ lg_next > Len(FirstTwo(lg_results))
  /\ lg_pc' = "done"
  /\ UNCHANGED <<lg_results, lg_next, sources_file>>
  /\ UNCHANGED nonLgVars

(***************************************************************************)
(* search_with_fallback (small_langgraph4.py and manual_agent_demo.py,     *)
(* which differ only in the fields of the items): the loop over the        *)
(* providers, each iteration one fetch call inside try / except Exception. *)
(***************************************************************************)
providers == <<"brave", "ddg">>

\* max_retries is not passed: the default of fetch
DefaultMaxRetries == 4

\* params = {"q": query, "count": 5} for Brave, {"q": query} for DuckDuckGo
SearchParams(provider, q) ==
  IF provider = "brave" THEN "{q:" \o ToString(q) \o ",count:5}"
  ELSE "{q:" \o ToString(q) \o "}"

\* the headers dict of the provider, by its keys
SearchHeaders(provider) ==
  IF provider = "brave" THEN "{User-Agent,Accept,X-Subscription-Token}" ELSE "{User-Agent}"

\* fetch(provider, url, params=params, headers=headers, use_cache=True,
\*       cache_only=cfg.cache_only)
SearchArgs(provider, q, cache_only) ==
  [provider |-> provider, url |-> provider, method |-> "GET",
   params |-> SearchParams(provider, q), json_body |-> None,
   headers |-> SearchHeaders(provider),
   use_cache |-> TRUE, cache_only |-> cache_only, max_retries |-> DefaultMaxRetries,
   timeout_s |-> DefaultTimeout]

SearchKeys == {KeyOf(SearchArgs(p, q, FALSE)) : p \in {"brave", "ddg"}, q \in Queries}

ReturnedList(r) == [kind |-> "returned", list |-> r]

SearchIdle ==
  /\ s_pc = "off"
  /\ s_query = 0
  /\ s_cache_only = FALSE
  /\ s_provider = 0
  /\ s_errs = <<>>
  /\ s_result = NoResult

\* The lists the lines after the fetch call can build from a returned body:
\* the items of a Brave JSON object, else the one stub item.
ParsedResults(provider, q, body) ==
  IF provider = "brave" /\ body = "json" THEN BraveResults
  ELSE {<<LgItem(IF provider = "brave" THEN BraveStubUrl(q) ELSE DdgStubUrl(q))>>}

\* These lines raise when the Brave JSON object is not shaped as expected
\* ("web" is no dict, an item is no dict).
ParseCanRaise(provider, body) == provider = "brave" /\ body = "json"

\* search_with_fallback(query, cfg) is called
SearchStart(q, cache_only) ==
  /\ s_pc = "off"
  /\ f_pc = "idle"
  /\ s_pc' = "fetch"
  /\ s_query' = q
  /\ s_cache_only' = cache_only
  /\ s_provider' = 1
  /\ s_errs' = <<>>
  /\ s_result' = NoResult
  /\ UNCHANGED fetchVars
  /\ UNCHANGED nonSearchVars

\* res = fetch(...) of the iteration is entered
SearchFetch ==
  /\ s_pc = "fetch"
  /\ FetchCall(SearchArgs(providers[s_provider], s_query, s_cache_only))

\* faulty variant: an empty list makes the loop go on to the next provider
SearchProviderOkOrNext ==
  /\ s_pc = "fetch"
  /\ f_pc = "done"
  /\ f_result.kind = "returned"
  /\ \E r \in ParsedResults(providers[s_provider], s_query, f_result.data.body) :
        IF r = <<>> /\ s_provider < Len(providers)
        THEN /\ s_provider' = s_provider + 1
             /\ UNCHANGED <<s_pc, s_result>>
        ELSE /\ s_result' = ReturnedList(r)
             /\ s_pc' = "done"
             /\ UNCHANGED s_provider
  /\ FetchReset
  /\ UNCHANGED <<cache, s_query, s_cache_only, s_errs>>
  /\ UNCHANGED nonSearchVars

\* fetch returned an entry and the list is built: search_ok, return results
SearchProviderOk ==
  /\ s_pc = "fetch"
  /\ f_pc = "done"
  /\ f_result.kind = "returned"
  /\ \E r \in ParsedResults(providers[s_provider], s_query, f_result.data.body) :
        s_result' = ReturnedList(r)
  /\ s_pc' = "done"
  /\ FetchReset
  /\ UNCHANGED <<cache, s_query, s_cache_only, s_provider, s_errs>>
  /\ UNCHANGED nonSearchVars

\* The error the iteration ends in: the one fetch raised, the AttributeError
\* of res.get on a None result, or one raised while the list is built.
IterationErrors ==
  IF f_result.kind = "raised" THEN {f_result.err}
  ELSE IF f_result.kind = "returned_none" THEN {"none_result"}
  ELSE IF ParseCanRaise(providers[s_provider], f_result.data.body) THEN {"parse"}
  ELSE {}

\* faulty variant: the error of the last provider reaches the caller
SearchProviderFailsRaises ==
  /\ s_pc = "fetch"
  /\ f_pc = "done"
  /\ \E e \in IterationErrors :
        /\ s_errs' = Append(s_errs, e)
        /\ IF s_provider < Len(providers)
           THEN /\ s_provider' = s_provider + 1
                /\ UNCHANGED <<s_pc, s_result>>
           ELSE /\ s_result' = Raised(e)
                /\ s_pc' = "done"
                /\ UNCHANGED s_provider
  /\ FetchReset
  /\ UNCHANGED <<cache, s_query, s_cache_only>>
  /\ UNCHANGED nonSearchVars

\* except Exception: search_fail is logged and the loop continues; after the
\* last provider the function returns [].
SearchProviderFails ==
  /\ s_pc = "fetch"
  /\ f_pc = "done"
  /\ \E e \in IterationErrors :
        /\ s_errs' = Append(s_errs, e)
        /\ IF s_provider < Len(providers)
           THEN /\ s_provider' = s_provider + 1
                /\ UNCHANGED <<s_pc, s_result>>
           ELSE /\ s_result' = ReturnedList(<<>>)
                /\ s_pc' = "done"
                /\ UNCHANGED s_provider
  /\ FetchReset
  /\ UNCHANGED <<cache, s_query, s_cache_only>>
  /\ UNCHANGED nonSearchVars

\* the caller has the list; search_with_fallback can be called again
SearchReturns ==
  /\ s_pc = "done"
  /\ s_pc' = "off"
  /\ s_query' = 0
  /\ s_cache_only' = FALSE
  /\ s_provider' = 0
  /\ s_errs' = <<>>
  /\ s_result' = NoResult
  /\ UNCHANGED fetchVars
  /\ UNCHANGED nonSearchVars

(***************************************************************************)
(* main of manual_agent_demo and small_langgraph4: the start-up check and  *)
(* the searches of one run, all with the run's cfg.cache_only              *)
(***************************************************************************)
MainIdle ==
  /\ m_pc = "off"
  /\ m_cache_only = FALSE

\* fetch("httpbin", "https://httpbin.org/get",
\*       params={"ping": "pong", "run": RUN_ID}, use_cache=not cfg.cache_only)
ToolArgs(run_id, cache_only) ==
  [provider |-> "httpbin", url |-> "httpbin", method |-> "GET",
   params |-> "{ping,run:" \o ToString(run_id) \o "}", json_body |-> None,
   headers |-> None, use_cache |-> ~cache_only, cache_only |-> FALSE,
   max_retries |-> DefaultMaxRetries, timeout_s |-> DefaultTimeout]

MainKeys == SearchKeys \cup {KeyOf(ToolArgs(r, FALSE)) : r \in 1..MaxRuns}

\* main is entered: cfg = Config(cache_only=args.cache_only)
MainStart(cache_only) ==
  /\ m_pc = "off"
  /\ m_pc' = "tool_check"
  /\ m_cache_only' = cache_only
  /\ UNCHANGED <<serpVars, fetchVars, lgVars, keyVars, searchVars, pipeVars, rsVars, blockVars>>

\* test_tool_availability(cfg): the fetch call is entered
ToolCheckFetch ==
  /\ m_pc = "tool_check"
  /\ FetchCall(ToolArgs(RUN_ID, m_cache_only))

\* test_tool_availability is over: tool_check_ok, or tool_check_fail in its
\* except clause; main goes on to the pipeline
ToolCheckOver ==
  /\ m_pc = "tool_check"
  /\ f_pc = "done"
  /\ FetchReset
  /\ m_pc' = "pipeline"
  /\ UNCHANGED <<cache, m_cache_only>>
  /\ UNCHANGED <<serpVars, lgVars, keyVars, searchVars, pipeVars, rsVars, blockVars>>

\* a search_with_fallback(query, cfg) call of the pipeline
MainSearch(q) ==
  /\ m_pc = "pipeline"
  /\ SearchStart(q, m_cache_only)

\* main returns and the process ends
MainExit ==
  /\ m_pc = "pipeline"
  /\ s_pc = "off"
  /\ m_pc' = "off"
  /\ m_cache_only' = FALSE
  /\ UNCHANGED <<serpVars, fetchVars, lgVars, keyVars, searchVars, pipeVars, rsVars, blockVars>>

(***************************************************************************)
(* serp_utils.py                                                           *)
(***************************************************************************)
\* faulty variant: the URL is not stripped, so that a string of whitespace
\* is a URL (NumUrls + 1) like any other
UrlOfUnstripped(item) ==
  IF item.url.isNone THEN 0
  ELSE IF item.url.core = 0 /\ item.url.pad THEN NumUrls + 1
  ELSE item.url.core

\* url = (item.get("url") or "").strip(); the result is the stripped string
UrlOf(item) == IF item.url.isNone THEN 0 ELSE item.url.core

\* faulty variant: an off-by-one comparison with the run cap
CanRecordMoreOffByOne(cap, total) == cap = NoInt \/ total <= cap[1]

\* self.run_cap is None or self._total_recorded < self.run_cap
CanRecordMore(cap, total) == cap = NoInt \/ total < cap[1]

\* faulty variant: the per-query quota is tested with > instead of >=
LimitReachedLate(taken, k, cap, total) == taken > k \/ ~CanRecordMore(cap, total)

\* faulty variant: the scan stops only when both limits are reached
LimitReachedBoth(taken, k, cap, total) == taken >= k /\ ~CanRecordMore(cap, total)

\* taken >= self.top_k_per_query or not self._can_record_more()
LimitReached(taken, k, cap, total) == taken >= k \/ ~CanRecordMore(cap, total)

\* faulty variant: the duplicate test is missing
IsDuplicateNever(url, seen) == FALSE

\* url in self._seen_urls
IsDuplicate(url, seen) == url \in seen

\* item.get("provider", "unknown") / item.get("snippet", "")
ProviderOf(item) == IF item.provider = Absent THEN "unknown" ELSE item.provider
SnippetOf(item) == IF item.snippet = Absent THEN "" ELSE item.snippet

\* the dict appended to self._agg_results
Normalized(item) ==
  [title |-> IF item.title = None THEN "" ELSE item.title,
   url |-> UrlOf(item),
   snippet |-> SnippetOf(item),
   provider |-> ProviderOf(item)]

\* the arguments of the record_source_jsonl call
SourceRecord(item, query, rank) ==
  [claim |-> <<"SERP", query>>, url |-> UrlOf(item), snippet |-> SnippetOf(item),
   provider |-> ProviderOf(item), source_kind |-> "SERP", query |-> query,
   rank_in_query |-> rank]

\* Provenance Recorder: appends one record to the run's source log
record_source_jsonl(log, rec) == Append(log, rec)

\* faulty variant: the per-query rank handed on is the run-wide count
AcceptItemRunRank(st, item, query) ==
  [st EXCEPT !.rank = st.rank + 1,
             !.log = record_source_jsonl(st.log, SourceRecord(item, query, st.total + 1)),
             !.seen = st.seen \cup {UrlOf(item)},
             !.agg = Append(st.agg, Normalized(item)),
             !.taken = st.taken + 1,
             !.total = st.total + 1]

\* faulty variant: the accepted item is not handed to the Provenance Recorder
AcceptItemUnlogged(st, item, query) ==
  [st EXCEPT !.rank = st.rank + 1,
             !.seen = st.seen \cup {UrlOf(item)},
             !.agg = Append(st.agg, Normalized(item)),
             !.taken = st.taken + 1,
             !.total = st.total + 1]

\* faulty variant: the accepted item is put at the front of the aggregate
AcceptItemAtFront(st, item, query) ==
  [st EXCEPT !.rank = st.rank + 1,
             !.log = record_source_jsonl(st.log, SourceRecord(item, query, st.rank + 1)),
             !.seen = st.seen \cup {UrlOf(item)},
             !.agg = <<Normalized(item)>> \o st.agg,
             !.taken = st.taken + 1,
             !.total = st.total + 1]

\* faulty variant: the URL of the accepted item is not added to the seen set
AcceptItemNotSeen(st, item, query) ==
  [st EXCEPT !.rank = st.rank + 1,
             !.log = record_source_jsonl(st.log, SourceRecord(item, query, st.rank + 1)),
             !.agg = Append(st.agg, Normalized(item)),
             !.taken = st.taken + 1,
             !.total = st.total + 1]

\* faulty variant: the accepted item is not counted in _total_recorded
AcceptItemUncounted(st, item, query) ==
  [st EXCEPT !.rank = st.rank + 1,
             !.log = record_source_jsonl(st.log, SourceRecord(item, query, st.rank + 1)),
             !.seen = st.seen \cup {UrlOf(item)},
             !.agg = Append(st.agg, Normalized(item)),
             !.taken = st.taken + 1]

\* One accepted item: lines 53-76.
AcceptItem(st, item, query) ==
  [st EXCEPT !.rank = st.rank + 1,
             !.log = record_source_jsonl(st.log, SourceRecord(item, query, st.rank + 1)),
             !.seen = st.seen \cup {UrlOf(item)},
             !.agg = Append(st.agg, Normalized(item)),
             !.taken = st.taken + 1,
             !.total = st.total + 1]

\* faulty variant: the URL is added to the seen set before the Provenance
\* Recorder is called, so that it stays there when the recorder raises
RECURSIVE RecordLoopSeenFirst(_, _, _, _, _, _, _)
RecordLoopSeenFirst(results, i, st, query, k, cap, fail_at) ==
  IF i > Len(results) THEN st
  ELSE LET item == results[i]
           url == UrlOf(item)
       IN  IF url = 0 THEN RecordLoopSeenFirst(results, i + 1, st, query, k, cap, fail_at)
           ELSE IF LimitReached(st.taken, k, cap, st.total) THEN st
           ELSE IF IsDuplicate(url, st.seen)
                THEN RecordLoopSeenFirst(results, i + 1, st, query, k, cap, fail_at)
           ELSE IF st.rank + 1 = fail_at
                THEN [st EXCEPT !.rank = st.rank + 1, !.raised = TRUE,
                                !.seen = st.seen \cup {url}]
           ELSE RecordLoopSeenFirst(results, i + 1, AcceptItem(st, item, query),
                                    query, k, cap, fail_at)

\* The for loop of record_query_results from position i on.  fail_at = n > 0
\* makes the n-th record_source_jsonl call of this loop raise.
RECURSIVE RecordLoop(_, _, _, _, _, _, _)
RecordLoop(results, i, st, query, k, cap, fail_at) ==
  IF i > Len(results) THEN st
  ELSE LET item == results[i]
           url == UrlOf(item)
       IN  IF url = 0 THEN RecordLoop(results, i + 1, st, query, k, cap, fail_at)
           ELSE IF LimitReached(st.taken, k, cap, st.total) THEN st
           ELSE IF IsDuplicate(url, st.seen)
                THEN RecordLoop(results, i + 1, st, query, k, cap, fail_at)
           ELSE IF st.rank + 1 = fail_at
                THEN [st EXCEPT !.rank = st.rank + 1, !.raised = TRUE]
           ELSE RecordLoop(results, i + 1, AcceptItem(st, item, query),
                           query, k, cap, fail_at)

record_query_results(results, query, fail_at) ==
  LET st0 == [seen |-> seen_urls, agg |-> agg_results, total |-> total_recorded,
              log |-> source_log, taken |-> 0, rank |-> 0, raised |-> FALSE]
      st == RecordLoop(results, 1, st0, query, top_k_per_query, run_cap, fail_at)
  IN  /\ seen_urls' = st.seen
      /\ agg_results' = st.agg
      /\ total_recorded' = st.total
      /\ source_log' = st.log
      /\ call_results' = results
      /\ call_query' = query
      /\ call_taken' = IF st.raised THEN NoInt ELSE Some(st.taken)
      /\ call_raised' = st.raised
      /\ pre_seen' = seen_urls
      /\ pre_total' = total_recorded
      /\ pre_agg' = agg_results
      /\ pre_log' = source_log
      /\ returned_sum' = IF st.raised THEN returned_sum ELSE returned_sum + st.taken
      /\ UNCHANGED <<top_k_per_query, run_cap>>
      /\ UNCHANGED nonSerpVars

\* No call has been made since the caller last moved on.
NoCall == call_query = 0

\* A call in which the Provenance Recorder does not raise.
RecordOk ==
  /\ NoCall
  /\ \E results \in ResultLists, q \in Queries : record_query_results(results, q, 0)
  /\ call_repeat' = FALSE

\* A call in which the n-th record_source_jsonl call raises.
RecordFails ==
  /\ NoCall
  /\ \E results \in ResultLists, q \in Queries, n \in 1..MaxK :
       /\ record_query_results(results, q, n)
       /\ call_raised'
  /\ call_repeat' = FALSE

\* The caller repeats its last call: the same results list, the same query.
RecordAgain ==
  /\ ~NoCall
  /\ ~call_raised
  /\ record_query_results(call_results, call_query, 0)
  /\ call_repeat' = TRUE

\* The caller drops the list and the returned count and goes on to its next
\* query (manual_agent_demo.macro_analyst: for query in (q1, q2)).
NextQuery ==
  /\ ~NoCall
  /\ call_results' = <<>>
  /\ call_query' = 0
  /\ call_taken' = NoInt
  /\ call_raised' = FALSE
  /\ call_repeat' = FALSE
  /\ pre_seen' = seen_urls
  /\ pre_total' = total_recorded
  /\ pre_agg' = agg_results
  /\ pre_log' = source_log
  /\ UNCHANGED <<top_k_per_query, run_cap, seen_urls, total_recorded, agg_results, source_log,
                 returned_sum>>
  /\ UNCHANGED nonSerpVars

\* self._agg_results[:max_items]: a negative max_items counts from the end
SliceTo(s, max_items) ==
  IF max_items >= 0 THEN SubSeq(s, 1, Min(max_items, Len(s)))
  ELSE IF Len(s) + max_items >= 0 THEN SubSeq(s, 1, Len(s) + max_items)
  ELSE <<>>

\* one element of lines: the four formatted lines of entry r, numbered i
BlockLines(i, r) ==
  [index |-> i,
   title |-> IF r.title = "" THEN "(no title)" ELSE r.title,
   url |-> r.url,
   snippet |-> r.snippet,
   provider |-> r.provider]

NoText == [text |-> "none"]
NoSourcesText == [text |-> "(no sources)"]
JoinedText(lines) == [text |-> "joined", lines |-> lines]

\* lines 82-90: the text context_block returns
context_block(agg, max_items) ==
  LET shown == SliceTo(agg, max_items)
      lines == [i \in 1..Len(shown) |-> BlockLines(i, shown[i])]
  IN  IF lines # <<>> THEN JoinedText(lines) ELSE NoSourcesText

BlockIdle ==
  /\ cb_calls = 0
  /\ cb_max = NoInt
  /\ cb_text = NoText
  /\ cb_first = NoText

\* faulty variant: the entries that are rendered are taken out of the aggregate
ContextBlockConsuming(max_items) ==
  /\ NoCall
  /\ cb_calls < 2
  /\ cb_calls = 1 => cb_max = Some(max_items)
  /\ cb_calls' = cb_calls + 1
  /\ cb_max' = Some(max_items)
  /\ cb_text' = context_block(agg_results, max_items)
  /\ cb_first' = cb_text
  /\ agg_results' = SubSeq(agg_results, Len(SliceTo(agg_results, max_items)) + 1,
                           Len(agg_results))
  /\ pre_agg' = agg_results'
  /\ UNCHANGED <<top_k_per_query, run_cap, seen_urls, total_recorded, source_log,
                 call_results, call_query, call_taken, call_raised, call_repeat,
                 pre_seen, pre_total, pre_log, returned_sum>>
  /\ UNCHANGED <<fetchVars, lgVars, keyVars, searchVars, pipeVars, rsVars, mainVars>>

\* One context_block call made by the owner of the recorder between two
\* record_query_results calls; a second call repeats the argument of the
\* first.  The method assigns to no attribute of self.
ContextBlock(max_items) ==
  /\ NoCall
  /\ cb_calls < 2
  /\ cb_calls = 1 => cb_max = Some(max_items)
  /\ cb_calls' = cb_calls + 1
  /\ cb_max' = Some(max_items)
  /\ cb_text' = context_block(agg_results, max_items)
  /\ cb_first' = cb_text
  /\ UNCHANGED serpVars
  /\ UNCHANGED <<fetchVars, lgVars, keyVars, searchVars, pipeVars, rsVars, mainVars>>

\* The caller drops the texts and goes on.
ContextDropped ==
  /\ cb_calls >= 1
  /\ cb_calls' = 0
  /\ cb_max' = NoInt
  /\ cb_text' = NoText
  /\ cb_first' = NoText
  /\ UNCHANGED serpVars
  /\ UNCHANGED <<fetchVars, lgVars, keyVars, searchVars, pipeVars, rsVars, mainVars>>

(***************************************************************************)
(* main of small_langgraph4.py and of manual_agent_demo.py: the pipeline   *)
(* macro_analyst, fact_checker, executive_writer.  A search is taken by    *)
(* what search_with_fallback gives back; the LLM answers are the fake      *)
(* responses, the stubs, or what openrouter_chat returns.                  *)
(***************************************************************************)
Programs == {"small_langgraph4", "manual_agent_demo"}

TOP_SERP_PER_QUERY == 6
\* SerpRecorder(top_k_per_query=TOP_SERP_PER_QUERY, run_cap=20)
RunCapOfDemo == 20

NoArtifact == [written |-> FALSE, flags |-> <<>>]
Artifact(flags) == [written |-> TRUE, flags |-> flags]

PipeIdle ==
  /\ p_prog = ""
  /\ p_stub = FALSE
  /\ p_pc = "off"
  /\ p_query = 0
  /\ p_res = <<>>
  /\ p_failed = {}
  /\ p_stages = <<>>
  /\ p_notes = ""
  /\ p_factcheck = NoArtifact
  /\ p_exit = NoInt

\* The items manual_agent_demo.search_with_fallback builds: "url" is a
\* string (it.get("url") or ""), "provider" is set.
ManualItem(r, provider) == [url |-> r, title |-> "T", snippet |-> "S", provider |-> provider]

ManualResults(q) ==
  SeqsUpTo({ManualItem(r, "brave") : r \in RawUrls \ {NoneUrl}}, 2)
    \cup {<<ManualItem(RawUrl(DdgStubUrl(q), FALSE), "ddg")>>,
          <<ManualItem(RawUrl(BraveStubUrl(q), FALSE), "ddg")>>}

\* the content of the answer of an LLM call: text, blanks, or no choices
LlmAnswers == {"text", " ", "no_choices"}

\* io_clients.openrouter_chat, which is not in the source tree: it returns
\* a response
openrouter_chat == LlmAnswers

\* choices[0]["message"]["content"] if choices else "(no content)"
TextOf(answer) == IF answer = "no_choices" THEN "(no content)" ELSE answer

\* str.strip() of the texts of the model
Strip(text) == IF text = " " THEN "" ELSE text

\* io_clients.load_sources_jsonl, which is not in the source tree: the
\* records of the run's source log
load_sources_jsonl == source_log

\* faulty variant: the flags depend on the notes alone
assess_source_completeness_no_missing(analyst_notes, sources) ==
  IF Len(Strip(analyst_notes)) > 0 THEN <<>> ELSE <<"sources_incomplete">>

assess_source_completeness(analyst_notes, sources) ==
  IF sources = <<>> THEN <<"sources_missing">>
  ELSE IF Len(sources) > 0 /\ Len(Strip(analyst_notes)) > 0 THEN <<>>
  ELSE <<"sources_incomplete">>

\* main up to the try block: parse_args, environment_check and
\* test_tool_availability, which catches what its fetch raises
PipeStart(prog, stub) ==
  /\ p_pc = "off"
  /\ p_prog' = prog
  /\ p_stub' = stub
  /\ p_pc' = "macro"
  /\ UNCHANGED <<p_query, p_res, p_failed, p_stages, p_notes, p_factcheck, p_exit>>
  /\ UNCHANGED <<serpVars, lgVars>>
  /\ UNCHANGED nonPipeVars

\* macro_analyst is entered; manual_agent_demo builds its SerpRecorder
PipeMacroStart ==
  /\ p_pc = "macro"
  /\ p_pc' = "search"
  /\ p_query' = 1
  /\ IF p_prog = "manual_agent_demo"
     THEN /\ top_k_per_query' = TOP_SERP_PER_QUERY
          /\ run_cap' = Some(RunCapOfDemo)
     ELSE UNCHANGED <<top_k_per_query, run_cap>>
  /\ UNCHANGED <<seen_urls, total_recorded, agg_results, source_log, call_results,
                 call_query, call_taken, call_raised, call_repeat, pre_seen, pre_total,
                 pre_agg, pre_log, returned_sum>>
  /\ UNCHANGED <<p_prog, p_stub, p_res, p_failed, p_stages, p_notes, p_factcheck, p_exit>>
  /\ UNCHANGED lgVars
  /\ UNCHANGED nonPipeVars

\* search_with_fallback(query, cfg) for the query p_query: every provider
\* fails and the list is [], or a provider answers
PipeSearch ==
  /\ p_pc = "search"
  /\ \E failed \in BOOLEAN :
       /\ p_failed' = IF failed THEN p_failed \cup {p_query} ELSE p_failed
       /\ \E r \in IF failed THEN {<<>>}
                  ELSE IF p_prog = "manual_agent_demo" THEN ManualResults(p_query)
                  ELSE search_with_fallback(p_query) :
            IF p_prog = "manual_agent_demo"
            THEN /\ p_res' = r
                 /\ p_pc' = "record"
                 /\ UNCHANGED <<p_query, lgVars>>
            ELSE /\ lg_results' = lg_results \o r
                 /\ IF p_query < NumQueries
                    THEN /\ p_query' = p_query + 1
                         /\ UNCHANGED <<p_pc, lg_pc, lg_next>>
                    ELSE /\ p_pc' = "sources"
                         /\ lg_pc' = "record"
                         /\ lg_next' = 1
                         /\ UNCHANGED p_query
                 /\ UNCHANGED <<p_res, sources_file>>
  /\ UNCHANGED <<p_prog, p_stub, p_stages, p_notes, p_factcheck, p_exit>>
  /\ UNCHANGED serpVars
  /\ UNCHANGED nonPipeVars

\* _ = rec.record_query_results(res, query=query); the recorder may raise at
\* its first call
PipeRecordQuery ==
  /\ p_pc = "record"
  /\ NoCall
  /\ \E n \in 0..1 :
       /\ record_query_results(p_res, p_query, n)
       /\ n = 1 => call_raised'
  /\ call_repeat' = FALSE

\* the call is over: its error leaves macro_analyst and main returns 1, or
\* the loop goes on to the next query and then to the LLM call
PipeRecorded ==
  /\ p_pc = "record"
  /\ ~NoCall
  /\ IF call_raised
     THEN /\ p_pc' = "exited"
          /\ p_exit' = Some(1)
          /\ UNCHANGED p_query
     ELSE /\ p_pc' = IF p_query < NumQueries THEN "search" ELSE "analyst_llm"
          /\ p_query' = IF p_query < NumQueries THEN p_query + 1 ELSE p_query
          /\ UNCHANGED p_exit
  /\ call_results' = <<>>
  /\ call_query' = 0
  /\ call_taken' = NoInt
  /\ call_raised' = FALSE
  /\ call_repeat' = FALSE
  /\ pre_seen' = seen_urls
  /\ pre_total' = total_recorded
  /\ pre_agg' = agg_results
  /\ pre_log' = source_log
  /\ UNCHANGED <<top_k_per_query, run_cap, seen_urls, total_recorded, agg_results, source_log,
                 returned_sum>>
  /\ UNCHANGED <<p_prog, p_stub, p_res, p_failed, p_stages, p_notes, p_factcheck>>
  /\ UNCHANGED lgVars
  /\ UNCHANGED nonPipeVars

\* small_langgraph4: the loop over results[:2] is over
PipeSourcesDone ==
  /\ p_pc = "sources"
  /\ lg_pc = "done"
  /\ p_pc' = "analyst_llm"
  /\ UNCHANGED <<p_prog, p_stub, p_query, p_res, p_failed, p_stages, p_notes, p_factcheck,
                 p_exit>>
  /\ UNCHANGED <<serpVars, lgVars>>
  /\ UNCHANGED nonPipeVars

\* the rest of macro_analyst: the LLM answer (fake, stub or openrouter_chat),
\* save_llm_call, the notes artifact
PipeAnalystNotes ==
  /\ p_pc = "analyst_llm"
  /\ \E answer \in IF p_prog = "small_langgraph4" \/ p_stub THEN {"text"} ELSE openrouter_chat :
       p_notes' = TextOf(answer)
  /\ p_stages' = Append(p_stages, "MacroAnalyst")
  /\ p_pc' = "fact"
  /\ UNCHANGED <<p_prog, p_stub, p_query, p_res, p_failed, p_factcheck, p_exit>>
  /\ UNCHANGED <<serpVars, lgVars>>
  /\ UNCHANGED nonPipeVars

\* fact_checker: small_langgraph4 writes the flags ["sources_incomplete"],
\* manual_agent_demo those of assess_source_completeness
PipeFactChecker ==
  /\ p_pc = "fact"
  /\ p_factcheck' =
       Artifact(IF p_prog = "small_langgraph4" THEN <<"sources_incomplete">>
                ELSE assess_source_completeness(p_notes, load_sources_jsonl))
  /\ p_stages' = Append(p_stages, "FactChecker")
  /\ p_pc' = "writer"
  /\ UNCHANGED <<p_prog, p_stub, p_query, p_res, p_failed, p_notes, p_exit>>
  /\ UNCHANGED <<serpVars, lgVars>>
  /\ UNCHANGED nonPipeVars

\* executive_writer, then the rest of main: the debug artifact, return 0
PipeWriterAndExit ==
  /\ p_pc = "writer"
  /\ p_stages' = Append(p_stages, "ExecutiveWriter")
  /\ p_exit' = Some(0)
  /\ p_pc' = "exited"
  /\ UNCHANGED <<p_prog, p_stub, p_query, p_res, p_failed, p_notes, p_factcheck>>
  /\ UNCHANGED <<serpVars, lgVars>>
  /\ UNCHANGED nonPipeVars

(***************************************************************************)
(* Specifications: the aggregator, the fetch client and the pipeline of    *)
(* small_langgraph4 each run on their own; the state of the others rests.  *)
(***************************************************************************)
\* no SerpRecorder is in use
SerpIdle ==
  /\ top_k_per_query = 0
  /\ run_cap = NoInt
  /\ seen_urls = {}
  /\ total_recorded = 0
  /\ agg_results = <<>>
  /\ source_log = <<>>
  /\ call_results = <<>>
  /\ call_query = 0
  /\ call_taken = NoInt
  /\ call_raised = FALSE
  /\ call_repeat = FALSE
  /\ pre_seen = {}
  /\ pre_total = 0
  /\ pre_agg = <<>>
  /\ pre_log = <<>>
  /\ returned_sum = 0

FetchInit ==
  /\ SerpIdle
  /\ LgIdle
  /\ KeyIdle
  /\ RsIdle
  /\ BlockIdle
  /\ MainIdle
  /\ PipeIdle
  /\ SearchIdle
  /\ FetchIdle
  /\ cache = [k \in CacheKeys |-> NoFile]

FetchNext ==
  \/ \E args \in FetchArgs : FetchCall(args)
  \/ \E o \in NetOutcomes : AttemptSucceeds(o)
  \/ \E o \in NetOutcomes : AttemptFails(o)
  \/ LoopEnds
  \/ FetchDone
  \/ CacheCorrupted

FetchSpec == FetchInit /\ [][FetchNext]_vars

\* SerpRecorder.__init__
SerpInit ==
  /\ FetchIdle
  /\ KeyIdle
  /\ RsIdle
  /\ BlockIdle
  /\ MainIdle
  /\ PipeIdle
  /\ SearchIdle
  /\ cache = [k \in CacheKeys |-> NoFile]
  /\ LgIdle
  /\ top_k_per_query \in 0..MaxK
  /\ run_cap \in {NoInt} \cup {Some(n) : n \in 0..MaxRunCap}
  /\ seen_urls = {}
  /\ total_recorded = 0
  /\ agg_results = <<>>
  /\ source_log = <<>>
  /\ call_results = <<>>
  /\ call_query = 0
  /\ call_taken = NoInt
  /\ call_raised = FALSE
  /\ call_repeat = FALSE
  /\ pre_seen = {}
  /\ pre_total = 0
  /\ pre_agg = <<>>
  /\ pre_log = <<>>
  /\ returned_sum = 0

SerpNext == RecordOk \/ RecordFails \/ RecordAgain \/ NextQuery

SerpSpec == SerpInit /\ [][SerpNext]_vars

\* a run of small_langgraph4.main: a fresh RUN_ID, no sources file yet
LgInit ==
  /\ SerpIdle
  /\ FetchIdle
  /\ KeyIdle
  /\ RsIdle
  /\ BlockIdle
  /\ MainIdle
  /\ PipeIdle
  /\ SearchIdle
  /\ cache = [k \in CacheKeys |-> NoFile]
  /\ lg_pc = "search1"
  /\ lg_results = <<>>
  /\ lg_next = 0
  /\ sources_file = NoSources

LgNext == LgSearch1 \/ LgSearch2 \/ LgRecord \/ LgRecorded

LgSpec == LgInit /\ [][LgNext]_vars

\* fetch calls for one request descriptor, whatever their other arguments,
\* in a first process and in those started after it
KeyInit ==
  /\ SerpIdle
  /\ LgIdle
  /\ FetchIdle
  /\ RsIdle
  /\ BlockIdle
  /\ MainIdle
  /\ PipeIdle
  /\ SearchIdle
  /\ cache = [k \in CacheKeys |-> NoFile]
  /\ RUN_ID = 1
  /\ now = 0
  /\ key_request \in Descriptors
  /\ key_files = {}
  /\ key_forms = {}

KeyNext ==
  \/ \E args \in FetchArgs : KeyComputed(args)
  \/ ProcessRestarts
  \/ TimePasses
  \/ CacheChanges

KeySpec == KeyInit /\ [][KeyNext]_vars

\* search_with_fallback calls, one after the other, over one cache directory
SearchInit ==
  /\ SerpIdle
  /\ LgIdle
  /\ KeyIdle
  /\ RsIdle
  /\ BlockIdle
  /\ MainIdle
  /\ PipeIdle
  /\ FetchIdle
  /\ SearchIdle
  /\ cache = [k \in SearchKeys |-> NoFile]

SearchNext ==
  \/ \E q \in Queries, cache_only \in BOOLEAN : SearchStart(q, cache_only)
  \/ SearchFetch
  \/ \E o \in NetOutcomes : AttemptSucceeds(o)
  \/ \E o \in NetOutcomes : AttemptFails(o)
  \/ SearchProviderOk
  \/ SearchProviderFails
  \/ SearchReturns
  \/ CacheCorrupted

SearchSpec == SearchInit /\ [][SearchNext]_vars

\* one run of main, of either program, with a fresh RUN_ID
PipeInit ==
  /\ SerpIdle
  /\ LgIdle
  /\ KeyIdle
  /\ RsIdle
  /\ BlockIdle
  /\ MainIdle
  /\ FetchIdle
  /\ SearchIdle
  /\ PipeIdle
  /\ cache = [k \in CacheKeys |-> NoFile]

PipeNext ==
  \/ \E prog \in Programs, stub \in BOOLEAN : PipeStart(prog, stub)
  \/ PipeMacroStart
  \/ PipeSearch
  \/ PipeRecordQuery
  \/ PipeRecorded
  \/ LgRecord
  \/ LgRecorded
  \/ PipeSourcesDone
  \/ PipeAnalystNotes
  \/ PipeFactChecker
  \/ PipeWriterAndExit

PipeSpec == PipeInit /\ [][PipeNext]_vars

\* the record_source calls of a run, and damage to the file between them
SourceInit ==
  /\ SerpIdle
  /\ LgIdle
  /\ KeyIdle
  /\ FetchIdle
  /\ SearchIdle
  /\ PipeIdle
  /\ RsIdle
  /\ BlockIdle
  /\ MainIdle
  /\ cache = [k \in CacheKeys |-> NoFile]

SourceNext ==
  \/ \E claim \in RsClaims, url \in RsUrls, snippet \in RsSnippets :
        RecordSourceCall(claim, url, snippet)
  \/ SourcesCorrupted

SourceSpec == SourceInit /\ [][SourceNext]_vars

\* fetches of one request with small and large max_retries, the default 4
\* among them: every call that does not hit the cache runs the retry loop
RetryArgs ==
  [provider : {"brave"}, url : Urls, method : {"GET"}, params : {None},
   json_body : JsonBodies, headers : {None}, use_cache : BOOLEAN, cache_only : {FALSE},
   max_retries : 0..MaxLoopRetries, timeout_s : {DefaultTimeout}]

RetryNext ==
  \/ \E args \in RetryArgs : FetchCall(args)
  \/ \E o \in NetOutcomes : AttemptSucceeds(o)
  \/ \E o \in NetOutcomes : AttemptFails(o)
  \/ LoopEnds
  \/ FetchDone

RetrySpec == FetchInit /\ [][RetryNext]_vars

\* runs of main, one after the other, over one cache directory
MainInit ==
  /\ SerpIdle
  /\ LgIdle
  /\ KeyIdle
  /\ RsIdle
  /\ BlockIdle
  /\ PipeIdle
  /\ FetchIdle
  /\ SearchIdle
  /\ MainIdle
  /\ cache = [k \in MainKeys |-> NoFile]

MainNext ==
  \/ \E cache_only \in BOOLEAN : MainStart(cache_only)
  \/ ToolCheckFetch
  \/ ToolCheckOver
  \/ \E q \in Queries : MainSearch(q)
  \/ SearchFetch
  \/ \E o \in NetOutcomes : AttemptSucceeds(o)
  \/ \E o \in NetOutcomes : AttemptFails(o)
  \/ SearchProviderOk
  \/ SearchProviderFails
  \/ SearchReturns
  \/ MainExit
  \/ m_pc = "off" /\ ProcessRestarts

MainSpec == MainInit /\ [][MainNext]_vars

\* fetch calls for one request in all the forms its descriptor can take
FormInit ==
  /\ SerpIdle
  /\ LgIdle
  /\ FetchIdle
  /\ RsIdle
  /\ BlockIdle
  /\ MainIdle
  /\ PipeIdle
  /\ SearchIdle
  /\ cache = [k \in {KeyOf(a) : a \in FormArgs} |-> NoFile]
  /\ RUN_ID = 1
  /\ now = 0
  /\ key_request \in {Descriptor(a) : a \in FormArgs}
  /\ key_files = {}
  /\ key_forms = {}

FormNext == \E args \in FormArgs : KeyComputedInForm(args)

FormSpec == FormInit /\ [][FormNext]_vars

\* fetches of one request that differ in everything but the request: the
\* headers (two subscription tokens), the timeout, max_retries and the flags
HeaderArgs ==
  [provider : {"brave"}, url : Urls, method : {"GET"}, params : {None},
   json_body : JsonBodies,
   headers : {"{X-Subscription-Token:a}", "{X-Subscription-Token:b}"},
   use_cache : BOOLEAN, cache_only : BOOLEAN, max_retries : 0..2,
   timeout_s : {DefaultTimeout, 5}]

HeaderInit ==
  /\ SerpIdle
  /\ LgIdle
  /\ KeyIdle
  /\ RsIdle
  /\ BlockIdle
  /\ MainIdle
  /\ PipeIdle
  /\ SearchIdle
  /\ FetchIdle
  /\ cache = [k \in {KeyOf(a) : a \in HeaderArgs} |-> NoFile]

HeaderNext ==
  \/ \E args \in HeaderArgs : FetchCall(args)
  \/ \E o \in NetOutcomes : AttemptSucceeds(o)
  \/ \E o \in NetOutcomes : AttemptFails(o)
  \/ LoopEnds
  \/ FetchDone

HeaderSpec == HeaderInit /\ [][HeaderNext]_vars

\* a recorder whose owner records queries and asks for context blocks
BlockInit == SerpInit

BlockNext ==
  \/ cb_calls = 0 /\ RecordOk
  \/ cb_calls = 0 /\ NextQuery
  \/ \E max_items \in -1..MaxItems : ContextBlock(max_items)
  \/ ContextDropped

BlockSpec == BlockInit /\ [][BlockNext]_vars

(***************************************************************************)
(* Helpers of the aggregator's properties.                                 *)
(***************************************************************************)
IsPrefix(s, t) == Len(s) <= Len(t) /\ \A i \in 1..Len(s) : s[i] = t[i]

\* the URLs of a sequence of aggregate entries or of log records, in order
UrlSeq(s) == [i \in 1..Len(s) |-> s[i].url]

\* the part of sequence t after its first n elements
DropFirst(t, n) == [i \in 1..(Len(t) - n) |-> t[n + i]]

NoRepeatedUrl(s) == \A i, j \in 1..Len(s) : i # j => s[i].url # s[j].url

\* The non-empty stripped URLs of a result list that are not in seen, each
\* once, in the order of their first occurrence.
RECURSIVE NewDistinct(_, _)
NewDistinct(results, seen) ==
  IF results = <<>> THEN <<>>
  ELSE LET u == UrlOf(Head(results))
       IN  IF u = 0 \/ u \in seen THEN NewDistinct(Tail(results), seen)
           ELSE <<u>> \o NewDistinct(Tail(results), seen \cup {u})

\* n limited by what is left of the run cap on entry to the last call
WithinCap(n) == IF run_cap = NoInt THEN n ELSE Min(n, run_cap[1] - pre_total)

\* the URLs the last call appended to all_results
Accepted == DropFirst(UrlSeq(agg_results), Len(pre_agg))

\* the last call returned (it did not raise)
Returned == ~NoCall /\ ~call_raised

(***************************************************************************)
(* C1: total_recorded never exceeds an integer run cap, after any          *)
(* sequence of record_query_results calls.                                 *)
(***************************************************************************)
C1_RunCapNeverExceeded ==
  run_cap # NoInt => total_recorded <= run_cap[1] /\ Len(agg_results) <= run_cap[1]

\* the run cap, not K, cut a call short: new URLs were left and K was not reached
C1_Witness ==
  /\ Returned
  /\ run_cap # NoInt
  /\ total_recorded = run_cap[1]
  /\ call_taken[1] >= 1
  /\ call_taken[1] < top_k_per_query
  /\ Len(NewDistinct(call_results, pre_seen)) > call_taken[1]

(***************************************************************************)
(* C2: one record_query_results call accepts, and returns a count of, at   *)
(* most top_k_per_query items, whatever the list and the prior state.      *)
(***************************************************************************)
C2_AtMostKPerCall ==
  /\ Len(agg_results) - Len(pre_agg) <= top_k_per_query
  /\ total_recorded - pre_total <= top_k_per_query
  /\ call_taken # NoInt => call_taken[1] <= top_k_per_query

\* K cut the call short: exactly the first K of more than K new URLs were taken
C2_Witness ==
  /\ Returned
  /\ top_k_per_query = MaxK
  /\ call_taken = Some(MaxK)
  /\ Len(NewDistinct(call_results, pre_seen)) > MaxK
  /\ Accepted = SubSeq(NewDistinct(call_results, pre_seen), 1, MaxK)

(***************************************************************************)
(* C3: no two entries of all_results have the same URL; a URL accepted in  *)
(* this or an earlier query is never accepted again.                       *)
(***************************************************************************)
C3_NoDuplicateUrl ==
  /\ NoRepeatedUrl(agg_results)
  /\ \A i \in 1..Len(Accepted) : Accepted[i] \notin pre_seen

\* the scan passed over an already accepted URL and accepted a later item
C3_Witness ==
  /\ Returned
  /\ Len(call_results) >= 2
  /\ UrlOf(call_results[1]) \in pre_seen
  /\ call_taken[1] >= 1

(***************************************************************************)
(* C5: all_results is a running union in acceptance order: every step      *)
(* leaves its old value as a prefix of the new one, and what a call        *)
(* appends are the accepted items in the order of the input list.          *)
(***************************************************************************)
C5_AppendOnlyInOrder ==
  [][/\ IsPrefix(agg_results, agg_results')
     /\ LET added == DropFirst(UrlSeq(agg_results'), Len(agg_results))
        IN  IsPrefix(added, NewDistinct(call_results', seen_urls))]_vars

\* a later query appended to a non-empty aggregate
C5_Witness ==
  /\ Returned
  /\ Len(pre_agg) >= 1
  /\ Len(agg_results) > Len(pre_agg)
  /\ source_log[1].query # call_query

(***************************************************************************)
(* C6: a call that returns accepts exactly the first n distinct non-empty  *)
(* URLs of the list that were not accepted before, n = min(K, run cap      *)
(* minus total_recorded on entry, number of such URLs).                    *)
(***************************************************************************)
C6_FirstNNewUrls ==
  Returned =>
    LET new == NewDistinct(call_results, pre_seen)
        n == Min(top_k_per_query, WithinCap(Len(new)))
    IN  /\ call_taken = Some(n)
        /\ Accepted = SubSeq(new, 1, n)
        /\ total_recorded = pre_total + n
        /\ seen_urls = pre_seen \cup {new[i] : i \in 1..n}

\* the scan went past a duplicate of an earlier query to reach K, and an
\* unseen URL after the cut-off was left out
C6_Witness ==
  /\ Returned
  /\ Len(call_results) = MaxResults
  /\ UrlOf(call_results[1]) \in pre_seen
  /\ call_taken = Some(top_k_per_query)
  /\ top_k_per_query >= 1
  /\ UrlOf(call_results[MaxResults]) # 0
  /\ UrlOf(call_results[MaxResults]) \notin seen_urls

(***************************************************************************)
(* C7 as stated: a second call with the identical list and query accepts   *)
(* 0 items and leaves all_results and total_recorded unchanged.            *)
(***************************************************************************)
RepeatStep == ~NoCall /\ call_repeat' /\ call_results' = call_results /\ call_query' = call_query

C4_NoSharedUrlInSourcesFile ==
  \A i, j \in 1..Len(sources_file.items) :
    (i # j /\ sources_file.items[i].url # 0)
      => sources_file.items[i].url # sources_file.items[j].url

\* the same property of the log the aggregator writes; it holds under SerpSpec
C4_AggregatorLogNoSharedUrl == NoRepeatedUrl(source_log)

(***************************************************************************)
(* C8: a fetch call with cache_only=true makes no network request; it      *)
(* returns the cached entry when one exists for the key and otherwise      *)
(* fails with a cache-miss error.                                          *)
(***************************************************************************)
C8_CacheOnlyEntryOrMiss ==
  (f_pc # "idle" /\ f_args.cache_only) =>
    /\ f_pc = "done"
    /\ f_net_calls = 0
    /\ f_result = IF cache[KeyOf(f_args)].file = "entry"
                  THEN ReturnedData(cache[KeyOf(f_args)])
                  ELSE Raised("cache_miss")

\* the part of C8 that the code keeps: no network request, no cache write,
\* whatever use_cache and max_retries are
C8_CacheOnlyNoNetwork ==
  [][(f_pc = "idle" /\ f_pc' # "idle" /\ f_args'.cache_only) =>
       /\ f_pc' = "done"
       /\ f_net_calls' = 0
       /\ cache' = cache]_vars

(***************************************************************************)
(* C9: when a cache entry exists for the key and fetch is called with      *)
(* use_cache=true, fetch makes no network call, returns exactly the cached *)
(* metadata and body, and leaves the cache unchanged.                      *)
(***************************************************************************)
C9_CacheHitSkipsNetwork ==
  [][(/\ f_pc = "idle"
      /\ f_pc' # "idle"
      /\ f_args'.use_cache
      /\ cache[KeyOf(f_args')].file = "entry") =>
       /\ f_pc' = "done"
       /\ f_net_calls' = 0
       /\ f_result' = ReturnedData(cache[KeyOf(f_args')])
       /\ f_result'.data.meta = cache[KeyOf(f_args')].meta
       /\ f_result'.data.body = cache[KeyOf(f_args')].body
       /\ cache' = cache]_vars

\* a hit on the normal path: an entry written by an earlier call is returned
C9_Witness ==
  /\ f_pc = "done"
  /\ f_args.use_cache
  /\ ~f_args.cache_only
  /\ f_args.max_retries >= 1
  /\ f_net_calls = 0
  /\ cache[KeyOf(f_args)].file = "entry"
  /\ f_result = ReturnedData(cache[KeyOf(f_args)])

(***************************************************************************)
(* C10: on a cache miss against a target that always answers with a        *)
(* retryable status, fetch makes exactly max_retries network attempts and  *)
(* then fails with an error.                                               *)
(***************************************************************************)
\* the call went past both cache paths
OnNetworkPath == f_pc # "idle" /\ f_attempt >= 1

C10_ExactlyMaxRetriesThenError ==
  (OnNetworkPath /\ f_only_retryable) =>
    /\ f_net_calls <= f_args.max_retries
    /\ f_pc = "done" => (f_net_calls = f_args.max_retries /\ f_result.kind = "raised")

\* C10 for max_retries >= 1, where the code does what the claim says
C10_FromOneRetry ==
  (OnNetworkPath /\ f_only_retryable /\ f_args.max_retries >= 1) =>
    /\ f_net_calls <= f_args.max_retries
    /\ f_pc = "done" =>
         /\ f_net_calls = f_args.max_retries
         /\ f_result = Raised("retryable_status")
         /\ Len(f_sleeps) = f_args.max_retries - 1

(***************************************************************************)
(* C11: a non-2xx status outside the retryable set (404) is terminal: for  *)
(* every max_retries >= 1 fetch fails right after the attempt that got it, *)
(* after exactly 1 network attempt when it is the first answer, with no    *)
(* backoff wait and no retry.                                              *)
(***************************************************************************)
\* the answer is a non-2xx status that is not in retryable_statuses
TerminalStatus(o) ==
  o.kind = "response" /\ RaisesForStatus(o.status) /\ o.status \notin retryable_statuses

C11_TerminalStatusNoRetry ==
  (OnNetworkPath /\ f_args.max_retries >= 1 /\ f_net_calls = 1 /\ TerminalStatus(f_last)) =>
    /\ f_pc = "done"
    /\ f_result = Raised("http_status")
    /\ f_sleeps = <<>>

\* what the code does with a terminal status: it is retried like any other
\* error, and ends the call only on the last attempt
C11_TerminalStatusRetried ==
  (OnNetworkPath /\ TerminalStatus(f_last)) =>
    /\ f_pc = "done" <=> f_net_calls = f_args.max_retries
    /\ f_pc = "done" => f_result = Raised("http_status")
    /\ Len(f_sleeps) = IF f_pc = "done" THEN f_net_calls - 1 ELSE f_net_calls

(***************************************************************************)
(* C13: an unparsable cache file is treated as a miss and is never fatal:  *)
(* with use_cache=true the call goes on to the network instead of raising, *)
(* and with cache_only=true it ends as it does when no file exists.        *)
(***************************************************************************)
\* the call has made no request yet and the file of its key is unparsable
AtCorruptEntry == f_pc # "idle" /\ f_net_calls = 0 /\ cache[KeyOf(f_args)] = Corrupt

C13_CorruptEntryIsMiss ==
  AtCorruptEntry =>
    /\ f_result # Raised("json_decode")
    /\ f_args.cache_only => f_result = Raised("cache_miss")
    /\ (f_args.use_cache /\ ~f_args.cache_only) => OnNetworkPath

\* what the code does: both cache paths read the file outside any try block
C13_CorruptEntryRaises ==
  (AtCorruptEntry /\ (f_args.cache_only \/ f_args.use_cache)) =>
    /\ f_pc = "done"
    /\ f_result = Raised("json_decode")
    /\ ~OnNetworkPath

(***************************************************************************)
(* C15: every fetch call, for every max_retries >= 0 and every use_cache   *)
(* and cache_only, ends in exactly one of three outcomes: it returns an    *)
(* entry with metadata and body, it fails with the cache-miss error (only  *)
(* with cache_only=true and no entry), or it fails with an error once all  *)
(* attempts are spent; it never returns without a result.                  *)
(***************************************************************************)
ReturnsEntry == f_result.kind = "returned" /\ f_result.data.file = "entry"

FailsWithCacheMiss ==
  /\ f_result = Raised("cache_miss")
  /\ f_args.cache_only
  /\ ~Exists(cache[KeyOf(f_args)])

FailsExhausted ==
  /\ f_result.kind = "raised"
  /\ f_result.err # "cache_miss"
  /\ OnNetworkPath
  /\ f_net_calls = f_args.max_retries

C15_OneOfThreeOutcomes ==
  f_pc = "done" => (ReturnsEntry \/ FailsWithCacheMiss \/ FailsExhausted)

\* the two further ways the code ends a call: None after an empty retry loop,
\* and the decode error of an unparsable cache file
C15_OutcomesOfTheCode ==
  f_pc = "done" =>
    \/ ReturnsEntry
    \/ FailsWithCacheMiss
    \/ FailsExhausted
    \/ f_result = ReturnedNone /\ f_args.max_retries = 0 /\ f_net_calls = 0
    \/ f_result = Raised("json_decode") /\ AtCorruptEntry /\ ~OnNetworkPath

(***************************************************************************)
(* C12: with max_retries >= 3 and a target that fails twice (retryable     *)
(* status or transport exception) and then returns 200, fetch succeeds on  *)
(* the 3rd attempt and the result is written to the cache; a following     *)
(* fetch of the same request with use_cache=true returns the same metadata *)
(* and body without a network call.                                        *)
(***************************************************************************)
\* the third request of the call was answered 200 after two transient failures
ThirdAnswer200 ==
  /\ OnNetworkPath
  /\ f_args.max_retries >= 3
  /\ f_net_calls = 3
  /\ f_only_transient
  /\ f_last.kind = "response"
  /\ f_last.status = 200

SucceededAndCached ==
  /\ f_pc = "done"
  /\ f_attempt = 3
  /\ f_result = ReturnedData(Data(200, f_last.content))
  /\ cache[KeyOf(f_args)] = f_result.data

\* the call follows, for the same request, one that succeeded on its 3rd attempt
FollowsThirdAttemptSuccess ==
  /\ f_pc # "idle"
  /\ f_prev # NoPrev
  /\ f_prev.attempts = 3
  /\ f_args.use_cache

ReturnsSameWithoutNetwork ==
  /\ f_pc = "done"
  /\ f_net_calls = 0
  /\ f_result.kind = "returned"
  /\ f_result.data.meta = f_prev.data.meta
  /\ f_result.data.body = f_prev.data.body

C12_ThirdAttempt200Succeeds ==
  /\ ThirdAnswer200 => SucceededAndCached
  /\ FollowsThirdAttemptSuccess => ReturnsSameWithoutNetwork

\* C12 for a 200 answer whose body fetch can read: text, or JSON that parses
C12_ThirdAttemptReadable200Succeeds ==
  /\ (ThirdAnswer200 /\ f_last.content # "badjson") => SucceededAndCached
  /\ FollowsThirdAttemptSuccess => ReturnsSameWithoutNetwork

\* the following call has returned what the 3rd attempt of the call before it
\* fetched and cached
C12_Witness ==
  /\ FollowsThirdAttemptSuccess
  /\ ReturnsSameWithoutNetwork
  /\ f_result.data = cache[KeyOf(f_args)]
  /\ f_result.data.meta.status = 200

(***************************************************************************)
(* C16: every fetch outcome and attempt (cache hit, cache miss, retry,     *)
(* terminal failure) emits at least one structured log event before fetch  *)
(* returns or raises, and that event carries the provider, the attempt     *)
(* number and the outcome.                                                 *)
(***************************************************************************)
\* the event names the outcome: a hit by its name, a response by its status
\* ("meta"), a failed attempt by its error ("err")
CarriesOutcome(e) == e.event = "http_cache_hit" \/ "meta" \in e.keys \/ "err" \in e.keys

FullEvent(e) == e.provider = f_args.provider /\ e.attempt # NoInt /\ CarriesOutcome(e)

Logged(P(_)) == \E i \in 1..Len(f_log) : P(f_log[i])

IsFullEventOfAttempt(n, e) == FullEvent(e) /\ e.attempt = Some(n)

C16_EveryOutcomeLogged ==
  /\ f_pc = "done" => Logged(FullEvent)
  /\ \A n \in 1..f_net_calls : \E i \in 1..Len(f_log) : IsFullEventOfAttempt(n, f_log[i])

\* what the code logs: every failed attempt n has an http_retry event with
\* the provider, n and the error, every answered request an http_call event
\* without an attempt number, a cache hit one http_cache_hit event without
\* one; a cache miss, an unparsable cache file and an empty retry loop end
\* the call with no event of their own
C16_EventsOfTheCode ==
  /\ \A i \in 1..Len(f_log) : f_log[i].provider = f_args.provider /\ CarriesOutcome(f_log[i])
  /\ \A i \in 1..Len(f_log) : f_log[i].attempt # NoInt <=> f_log[i].event = "http_retry"
  /\ (f_pc = "done" /\ f_result.kind = "raised" /\ OnNetworkPath) =>
       IsFullEventOfAttempt(f_net_calls, f_log[Len(f_log)])
  /\ (f_pc = "done" /\ f_net_calls = 0) =>
       f_log = IF f_result.kind = "returned" THEN <<CacheHitEvent(f_args)>> ELSE <<>>

(***************************************************************************)
(* C14: the cache key is a pure, deterministic function of the request     *)
(* descriptor: calls with identical provider, URL, method, params and body *)
(* always map to the same cache file, across repeated calls and process    *)
(* restarts, independent of cache contents, time and run id.               *)
(***************************************************************************)
C14_OneFilePerDescriptor == \A k1, k2 \in key_files : k1 = k2

\* the file name was computed again in a later process, at a later time and
\* over a cache directory that holds entries and a damaged file
C14_Witness ==
  /\ key_files = {cache_key(key_request.provider,
                            Payload(key_request.url, key_request.method,
                                    key_request.params, key_request.json_body))}
  /\ RUN_ID > 1
  /\ now > 0
  /\ \E k \in CacheKeys : cache[k] = Corrupt
  /\ \E k \in CacheKeys : cache[k].file = "entry"

(***************************************************************************)
(* C17: search_with_fallback never raises to its caller: whatever error    *)
(* each provider's fetch ends in (cache miss, exhausted retries, terminal  *)
(* status), it is absorbed, and when every provider fails the query yields *)
(* an empty result list.                                                   *)
(***************************************************************************)
EveryProviderFailed == s_pc = "done" /\ Len(s_errs) = Len(providers)

C17_SearchNeverRaises ==
  /\ s_result.kind # "raised"
  /\ s_pc = "done" => s_result.kind = "returned"
  /\ EveryProviderFailed => s_result = ReturnedList(<<>>)

\* Brave ended in a terminal status and DuckDuckGo in exhausted retries
\* (cache_only false), or both in a cache miss (cache_only true)
C17_Witness ==
  /\ EveryProviderFailed
  /\ s_result = ReturnedList(<<>>)
  /\ \/ ~s_cache_only /\ s_errs = <<"http_status", "retryable_status">>
     \/ s_cache_only /\ s_errs = <<"cache_miss", "cache_miss">>

(***************************************************************************)
(* C18: a run in which every provider fails for every query (no source is  *)
(* fetched or recorded) still runs all pipeline stages to completion and   *)
(* ends with a success exit status, and the fact-check artifact it writes  *)
(* carries a non-empty incompleteness flag.                                *)
(***************************************************************************)
AllQueriesFailed == p_failed = Queries

AllStages == <<"MacroAnalyst", "FactChecker", "ExecutiveWriter">>

C18_FailedSearchRunCompletes ==
  AllQueriesFailed =>
    /\ source_log = <<>> /\ sources_file = NoSources
    /\ p_pc # "exited" => ENABLED PipeNext
    /\ p_pc = "exited" =>
         /\ p_exit = Some(0)
         /\ p_stages = AllStages
         /\ p_factcheck.written
         /\ p_factcheck.flags # <<>>

\* manual_agent_demo without --stub has ended such a run
C18_Witness ==
  /\ AllQueriesFailed
  /\ p_pc = "exited"
  /\ p_prog = "manual_agent_demo"
  /\ ~p_stub
  /\ p_exit = Some(0)
  /\ p_stages = AllStages
  /\ p_factcheck = Artifact(<<"sources_missing">>)

(***************************************************************************)
(* C19: the source log is append-only and grows monotonically: after any   *)
(* sequence of record calls, every record that was in the log before a     *)
(* call is still in it after the call, unchanged and in the same position, *)
(* and the call adds exactly one record at the end.                        *)
(***************************************************************************)
C19_AppendOnly ==
  [][rs_calls' # rs_calls =>
       /\ sources_file'.file = "list"
       /\ IsPrefix(sources_file.items, sources_file'.items)
       /\ sources_file'.items = Append(sources_file.items, rs_rec')]_vars

\* the third call of a run has appended to the two records of the first two
C19_Witness ==
  /\ rs_calls = 3
  /\ Len(rs_pre.items) = 2
  /\ sources_file = SourcesList(Append(rs_pre.items, rs_rec))
  /\ rs_pre.items[1] # rs_pre.items[2]

C21_OneRecordPerAcceptedItem ==
  /\ UrlSeq(source_log) = UrlSeq(agg_results)
  /\ Len(source_log) = total_recorded

\* two queries have recorded; the second passed over an item it did not
\* accept (a duplicate or an empty URL) and accepted another
C21_Witness ==
  /\ Returned
  /\ Len(pre_log) >= 1
  /\ Len(source_log) > Len(pre_log)
  /\ source_log[1].query # call_query
  /\ call_taken[1] < Len(call_results)
  /\ \E i \in 1..Len(call_results) :
        UrlOf(call_results[i]) = 0 \/ UrlOf(call_results[i]) \in pre_seen

(***************************************************************************)
(* C23: the ranks one record_query_results call hands to the Provenance    *)
(* Recorder are 1, 2, ..., n in acceptance order, n the returned count:    *)
(* skipped duplicates and empty-URL items leave no gap.                    *)
(***************************************************************************)
C23_RanksCountAcceptedItems ==
  Returned =>
    LET handed == DropFirst(source_log, Len(pre_log))
    IN  /\ Len(handed) = call_taken[1]
        /\ \A i \in 1..Len(handed) :
              /\ handed[i].rank_in_query = i
              /\ handed[i].url = Accepted[i]

\* a later query, whose first accepted item follows a skipped one and whose
\* second accepted item has rank 2
C23_Witness ==
  /\ Returned
  /\ pre_total >= 1
  /\ call_taken = Some(2)
  /\ Len(call_results) = 3
  /\ (UrlOf(call_results[1]) = 0 \/ UrlOf(call_results[1]) \in pre_seen)
  /\ source_log[Len(source_log)].rank_in_query = 2

(***************************************************************************)
(* C24: an item whose URL is empty, absent or only whitespace is never     *)
(* recorded and never counted: wherever such items sit in the list, the    *)
(* call ends as the call on the list without them ends (the returned       *)
(* count, total_recorded, the seen set, all_results and the source log),   *)
(* so they take no quota and do not end the scan; the empty string is      *)
(* never a seen URL nor the URL of an aggregate entry.                     *)
(***************************************************************************)
IsBlankUrl(item) == item.url.isNone \/ item.url.core = 0

WithoutBlankUrls(results) == SelectSeq(results, LAMBDA item : ~IsBlankUrl(item))

C24_BlankUrlItemsHaveNoEffect ==
  /\ 0 \notin seen_urls
  /\ \A i \in 1..Len(agg_results) : agg_results[i].url \in 1..NumUrls
  /\ Returned =>
       LET st0 == [seen |-> pre_seen, agg |-> pre_agg, total |-> pre_total,
                   log |-> pre_log, taken |-> 0, rank |-> 0, raised |-> FALSE]
           st == RecordLoop(WithoutBlankUrls(call_results), 1, st0, call_query,
                            top_k_per_query, run_cap, 0)
       IN  /\ call_taken = Some(st.taken)
           /\ total_recorded = st.total
           /\ seen_urls = st.seen
           /\ agg_results = st.agg
           /\ source_log = st.log

\* a call whose list starts with a None URL and holds a whitespace URL, and
\* which still took its full quota of K = 1 behind them
C24_Witness ==
  /\ Returned
  /\ Len(call_results) = 3
  /\ call_results[1].url = NoneUrl
  /\ call_results[2].url = RawUrl(0, TRUE)
  /\ top_k_per_query = 1
  /\ call_taken = Some(1)
  /\ UrlOf(call_results[3]) \in seen_urls \ pre_seen

(***************************************************************************)
(* C22: context_block(max_items) is a pure formatting function: a call     *)
(* changes neither all_results, the seen-URL set nor total_recorded; two   *)
(* calls in the same state return the same text; and for max_items >= 0    *)
(* the text renders exactly the first min(max_items, len(all_results))     *)
(* entries in aggregate order, numbered from 1.                            *)
(***************************************************************************)
C22_ContextBlockPureFormatting ==
  [][cb_calls' > cb_calls =>
       /\ agg_results' = agg_results
       /\ seen_urls' = seen_urls
       /\ total_recorded' = total_recorded
       /\ cb_calls' = 2 => cb_text' = cb_first'
       /\ cb_max'[1] >= 0 =>
            LET n == Min(cb_max'[1], Len(agg_results))
            IN  IF n = 0 THEN cb_text' = NoSourcesText
                ELSE /\ cb_text'.text = "joined"
                     /\ Len(cb_text'.lines) = n
                     /\ \A i \in 1..n :
                          LET l == cb_text'.lines[i]
                              r == agg_results[i]
                          IN  /\ l.index = i
                              /\ l.url = r.url
                              /\ l.snippet = r.snippet
                              /\ l.provider = r.provider
                              /\ l.title = r.title \/ (r.title = "" /\ l.title = "(no title)")]_vars

\* the second of two calls with max_items = 2 on an aggregate of three
\* entries, the first of them without a title
C22_Witness ==
  /\ cb_calls = 2
  /\ cb_max = Some(2)
  /\ Len(agg_results) = 3
  /\ agg_results[1].title = ""
  /\ cb_text = cb_first
  /\ Len(cb_text.lines) = 2

(***************************************************************************)
(* C25: a cache entry is created only by a successful fetch: no step of a  *)
(* call that does not return data changes the cache (so a call that ends   *)
(* in an error leaves it as it was), and an entry is written only in the   *)
(* step in which the call returns that entry, for its own key and with a   *)
(* 2xx status in its metadata.                                             *)
(***************************************************************************)
C25_EntryOnlyFromSuccessfulFetch ==
  [][/\ (f_pc' # "idle" /\ f_result'.kind # "returned") => cache' = cache
     /\ \A k \in DOMAIN cache :
          (cache'[k] # cache[k] /\ cache'[k] # Corrupt) =>
            /\ f_pc = "loop"
            /\ f_pc' = "done"
            /\ k = KeyOf(f_args)
            /\ f_result' = ReturnedData(cache'[k])
            /\ cache'[k].file = "entry"
            /\ cache'[k].meta.status \in 200..299]_vars

\* a call has ended in the error of its last attempt, a status that is
\* neither 2xx nor retryable; its key has no entry, another key has one
C25_Witness ==
  /\ f_pc = "done"
  /\ f_result = Raised("http_status")
  /\ f_last.status = 304
  /\ f_net_calls >= 2
  /\ cache[KeyOf(f_args)] = NoFile
  /\ \E k \in DOMAIN cache : cache[k].file = "entry"

(***************************************************************************)
(* C26: a cache entry is immutable under normal operation: no step of a    *)
(* fetch call made with use_cache = true or cache_only = true changes an   *)
(* entry that exists.                                                      *)
(***************************************************************************)
C26_EntryImmutableUnderCachedCalls ==
  [][LET args == IF f_pc = "idle" THEN f_args' ELSE f_args
     IN  ((f_pc # "idle" \/ f_pc' # "idle") /\ (args.use_cache \/ args.cache_only)) =>
           \A k \in DOMAIN cache : cache[k].file = "entry" => cache'[k] = cache[k]]_vars

\* a call with use_cache = true has returned, without a request, the entry
\* that the call before it fetched and wrote
C26_Witness ==
  /\ f_pc = "done"
  /\ f_args.use_cache
  /\ ~f_args.cache_only
  /\ f_args.max_retries >= 1
  /\ f_net_calls = 0
  /\ f_prev # NoPrev
  /\ f_prev.key = KeyOf(f_args)
  /\ cache[KeyOf(f_args)] = f_prev.data
  /\ f_result = ReturnedData(f_prev.data)

(***************************************************************************)
(* C27: with use_cache = false and cache_only = false, fetch ignores an    *)
(* existing entry and always goes to the network, and on success the entry *)
(* of the key is the new response.                                         *)
(***************************************************************************)
ForcedCallOver == f_pc = "done" /\ ~f_args.use_cache /\ ~f_args.cache_only

C27_ForcedRefetchGoesToNetwork ==
  ForcedCallOver =>
    /\ f_net_calls >= 1
    /\ f_result.kind = "returned" => cache[KeyOf(f_args)] = f_result.data

(***************************************************************************)
(* C27, what the code does: a forced call with max_retries >= 1 makes at   *)
(* least one request whatever the cache holds and on success leaves the    *)
(* new response in the entry; with max_retries = 0 it makes none and       *)
(* returns None, and the cache is left as it was.                          *)
(***************************************************************************)
C27_ForcedRefetchOfTheCode ==
  ForcedCallOver =>
    IF f_args.max_retries >= 1
    THEN /\ f_net_calls >= 1
         /\ f_result.kind = "returned" => cache[KeyOf(f_args)] = f_result.data
    ELSE f_net_calls = 0 /\ f_result = ReturnedNone

(***************************************************************************)
(* C28: a fetch call on a cache miss makes at most max_retries requests,   *)
(* one after the other (a request is made only when every earlier one has  *)
(* failed and has been waited for), every step of the loop makes a request *)
(* or ends the call, and the first request that succeeds ends the call.    *)
(* An attempt succeeds when it raises nothing in the try block.            *)
(***************************************************************************)
SuccessfulAttempt(o) == o.kind = "response" /\ AttemptError(o) = ""

C28_BoundedSequentialAttempts ==
  [][/\ f_net_calls' <= f_args'.max_retries
     /\ (f_pc = "loop" /\ f_net_calls' # f_net_calls) =>
          /\ f_net_calls' = f_net_calls + 1
          /\ f_attempt = f_net_calls'
          /\ Len(f_sleeps) = f_net_calls
          /\ f_last = NoOutcome \/ ~SuccessfulAttempt(f_last)
     /\ (f_pc = "loop" /\ fetchVars' # fetchVars) =>
          f_pc' = "done" \/ f_net_calls' = f_net_calls + 1
     /\ (f_pc = "loop" /\ f_net_calls' # f_net_calls /\ SuccessfulAttempt(f_last')) =>
          /\ f_pc' = "done"
          /\ f_result'.kind = "returned"]_vars

\* a call with max_retries = 4 has returned after its second request and
\* its only wait
C28_Witness ==
  /\ f_pc = "done"
  /\ f_args.max_retries = 4
  /\ f_net_calls = 2
  /\ SuccessfulAttempt(f_last)
  /\ f_result.kind = "returned"
  /\ Len(f_sleeps) = 1

C30_LastErrorPropagates ==
  (f_pc = "done" /\ f_net_calls >= 1 /\ f_result.kind = "raised") =>
    /\ AttemptError(f_last) # ""
    /\ f_result = Raised(AttemptError(f_last))

\* three attempts, the earlier ones not all answered with a retryable
\* status (a transport error is among them), the last answered with one:
\* the caller gets the retryable-status error
C30_Witness ==
  /\ f_pc = "done"
  /\ f_net_calls = 3
  /\ f_args.max_retries = 3
  /\ f_only_transient
  /\ ~f_only_retryable
  /\ f_last.kind = "response"
  /\ f_last.status = 503
  /\ f_result = Raised("retryable_status")

(***************************************************************************)
(* C31: provider fallback is sequential: the second provider is contacted  *)
(* only after the fetch of the first has failed completely (all of its     *)
(* retry attempts spent, or a cache miss); when the fetch of the first     *)
(* provider succeeds the second is never contacted for the query.          *)
(***************************************************************************)
GoesToSecondProvider == s_pc = "fetch" /\ s_provider = 1 /\ s_provider' = 2

FetchFailedCompletely ==
  /\ f_pc = "done"
  /\ f_result.kind = "raised"
  /\ f_result = Raised("cache_miss") \/ (f_net_calls >= 1 /\ f_net_calls = f_args.max_retries)

C31_SecondProviderOnlyAfterFailedFetch ==
  [][GoesToSecondProvider => FetchFailedCompletely]_vars

(***************************************************************************)
(* C31, what the code does: the loop goes on to the second provider only   *)
(* when the fetch call of the first is over, and then in four cases: the   *)
(* cache-only miss, the error of the last attempt, the parse error of an   *)
(* unparsable cache file (no request made), and an error raised while the  *)
(* result list is built from the body of a fetch that succeeded.           *)
(***************************************************************************)
C31_FallbackOfTheCode ==
  [][GoesToSecondProvider =>
       /\ f_pc = "done"
       /\ \/ FetchFailedCompletely
          \/ /\ f_result = Raised("json_decode")
             /\ f_net_calls = 0
             /\ cache[KeyOf(f_args)] = Corrupt
          \/ /\ f_result.kind = "returned"
             /\ ParseCanRaise(providers[s_provider], f_result.data.body)]_vars

(***************************************************************************)
(* C38 as stated: provider fallback is triggered only by a failed fetch,   *)
(* never by an empty result.                                               *)
(***************************************************************************)
C38_FallbackOnlyByFailedFetch ==
  [][GoesToSecondProvider => f_result.kind = "raised"]_vars

(***************************************************************************)
(* C38 amended: provider fallback is triggered only by an exception of the *)
(* provider's iteration (a failed fetch, or an error raised while the      *)
(* result list is built from the body), never by an empty result: every    *)
(* step to the second provider logs a search_fail with that error, and a   *)
(* first provider whose body gives zero items ends the call with [].       *)
(***************************************************************************)
C38_FallbackOnlyByException ==
  [][/\ GoesToSecondProvider =>
          /\ f_pc = "done"
          /\ Len(s_errs') = Len(s_errs) + 1
          /\ s_errs'[Len(s_errs')] \in IterationErrors
          /\ s_result' = NoResult
     /\ (s_pc = "fetch" /\ s_provider = 1 /\ s_errs' = s_errs /\ f_pc = "done" /\ f_pc' = "idle") =>
          /\ s_pc' = "done"
          /\ s_provider' = 1
          /\ s_result'.kind = "returned"]_vars

\* the first provider answered with a JSON object that holds no result
\* item: the call is over with [], no search_fail logged, on provider 1
C38_Witness ==
  /\ s_pc = "done"
  /\ s_provider = 1
  /\ s_errs = <<>>
  /\ s_result = ReturnedList(<<>>)

(***************************************************************************)
(* C34: when the Provenance Recorder raises while an item is persisted,    *)
(* record_query_results propagates the error and that item is not          *)
(* accepted (not in the seen set, not in all_results, not counted), while  *)
(* the items accepted earlier in the same call stay accepted.              *)
(***************************************************************************)
C34_FailingItemNotAccepted ==
  call_raised =>
    LET new == NewDistinct(call_results, pre_seen)
        n == Len(agg_results) - Len(pre_agg)
    IN  /\ call_taken = NoInt
        /\ n < Len(new)
        /\ n < top_k_per_query
        /\ new[n + 1] \notin seen_urls
        /\ \A i \in 1..Len(agg_results) : agg_results[i].url # new[n + 1]
        /\ total_recorded = pre_total + n
        /\ IsPrefix(pre_agg, agg_results)
        /\ Accepted = SubSeq(new, 1, n)
        /\ seen_urls = pre_seen \cup {new[i] : i \in 1..n}

\* the recorder raised at the second item of a call: the first stays accepted
C34_Witness ==
  /\ call_raised
  /\ Len(agg_results) = Len(pre_agg) + 1
  /\ total_recorded = pre_total + 1
  /\ Len(NewDistinct(call_results, pre_seen)) >= 2

(***************************************************************************)
(* C33: over record_query_results calls in which the recorder does not     *)
(* fail the aggregator's state agrees: total_recorded = length of          *)
(* all_results = size of the seen set = sum of the returned values, and    *)
(* the seen set is the set of the URLs of all_results.  The first three    *)
(* agree in every state; the sum agrees at the start and every step that   *)
(* is not a failing call keeps it in agreement.                            *)
(***************************************************************************)
AggregatorAgrees ==
  /\ total_recorded = Len(agg_results)
  /\ total_recorded = Cardinality(seen_urls)
  /\ seen_urls = {agg_results[i].url : i \in 1..Len(agg_results)}

C33_AggregatorStateAgrees ==
  [][/\ AggregatorAgrees
     /\ AggregatorAgrees'
     /\ (returned_sum = total_recorded /\ ~call_raised') => returned_sum' = total_recorded'
     /\ Returned' => returned_sum' - returned_sum = call_taken'[1]]_vars

\* two calls for two queries returned, each with a positive count
C33_Witness ==
  /\ Returned
  /\ returned_sum = total_recorded
  /\ call_taken[1] >= 1
  /\ pre_total >= 1
  /\ total_recorded = pre_total + call_taken[1]
  /\ source_log[1].query # call_query

(***************************************************************************)
(* C32: cache entries are scoped per provider: an entry stored by a fetch  *)
(* under provider A is never a cache hit for a fetch with the same URL,    *)
(* method, params and body under another provider B.  Every step that      *)
(* stores an entry leaves the outcome of the cache paths of every call of  *)
(* another provider as it was, and the file it wrote is not theirs.        *)
(***************************************************************************)
C32_EntriesScopedPerProvider ==
  [][(f_pc = "loop" /\ cache' # cache) =>
       \A p \in Providers \ {f_args.provider}, uc, co \in BOOLEAN :
         LET b == [f_args EXCEPT !.provider = p, !.use_cache = uc, !.cache_only = co]
         IN  /\ KeyOf(b) # KeyOf(f_args)
             /\ cache'[KeyOf(b)] = cache[KeyOf(b)]
             /\ CachePaths(b, cache'[KeyOf(b)]) = CachePaths(b, cache[KeyOf(b)])]_vars

\* a cache-only call of DuckDuckGo misses while the entry of the same
\* request stored under Brave is in the cache
C32_Witness ==
  /\ f_pc = "done"
  /\ f_args.provider = "ddg"
  /\ f_args.cache_only
  /\ f_result = Raised("cache_miss")
  /\ cache[KeyOf([f_args EXCEPT !.provider = "brave"])].file = "entry"

(***************************************************************************)
(* C36: the cache key depends only on provider, URL, method, params and    *)
(* body: calls that differ only in headers, timeout, max_retries,          *)
(* use_cache or cache_only address one cache entry, so a response cached   *)
(* for one set of headers is served as a hit to a request with other       *)
(* headers.  Every step that stores an entry makes it the result of the    *)
(* cache paths of every such call that reads the cache, and a hit returns  *)
(* what the call before fetched, whatever headers that call sent.          *)
(***************************************************************************)
C36_KeyIgnoresHeadersAndOptions ==
  [][/\ (f_pc = "loop" /\ cache' # cache) =>
          \A b \in HeaderArgs :
            Descriptor(b) = Descriptor(f_args) =>
              /\ KeyOf(b) = KeyOf(f_args)
              /\ (b.use_cache \/ b.cache_only) =>
                    CachePaths(b, cache'[KeyOf(b)]) = f_result'
     /\ (f_pc = "idle" /\ f_pc' = "done" /\ f_prev' # NoPrev) =>
          /\ f_net_calls' = 0
          /\ f_result' = ReturnedData(f_prev'.data)]_vars

\* a response fetched with token a is returned from the cache to a call
\* with token b and another timeout; no request was made
C36_Witness ==
  /\ f_pc = "done"
  /\ f_net_calls = 0
  /\ f_prev # NoPrev
  /\ f_prev.headers = "{X-Subscription-Token:a}"
  /\ f_args.headers = "{X-Subscription-Token:b}"
  /\ f_args.timeout_s # DefaultTimeout
  /\ f_result = ReturnedData(f_prev.data)

(***************************************************************************)
(* C37: cache-key canonicalization equates descriptors that differ only in *)
(* form: "get" and "GET" give the same key, absent params or body give the *)
(* same key as an empty mapping, and the key does not depend on the        *)
(* insertion order of the params or body fields.  The calls for one        *)
(* request, in whatever forms, are given at most one file name.            *)
(***************************************************************************)
C37_FormsOfOneRequestShareTheKey == Cardinality(key_files) <= 1

\* the key was computed from two forms that differ in all three ways
C37_Witness ==
  /\ Cardinality(key_files) = 1
  /\ \E a, b \in key_forms :
        /\ a.method = "get" /\ b.method = "GET"
        /\ a.params = None /\ b.params = EmptyDict
        /\ a.json_body = "{q,count}" /\ b.json_body = "{count,q}"

(***************************************************************************)
(* C35: in a run started with the cache-only flag no fetch call of the     *)
(* pipeline performs network I/O: every fetch of the run, the start-up     *)
(* tool-availability check included, is served from the cache or fails.    *)
(***************************************************************************)
C35_CacheOnlyRunMakesNoRequest ==
  (m_cache_only /\ m_pc # "off") => f_net_calls = 0 /\ f_pc # "loop"

(***************************************************************************)
(* C35, what the code does: in a cache-only run the fetch calls of the     *)
(* searches make no request, and the start-up check is a forced fetch      *)
(* (use_cache false, cache_only false) that always goes to the network.    *)
(***************************************************************************)
C35_CacheOnlyRunOfTheCode ==
  (m_cache_only /\ m_pc # "off") =>
    /\ m_pc = "pipeline" => f_net_calls = 0 /\ f_pc # "loop"
    /\ (m_pc = "tool_check" /\ f_pc # "idle") =>
          /\ ~f_args.use_cache /\ ~f_args.cache_only
          /\ f_pc = "done" => f_net_calls >= 1

====
